---- MODULE Spec2Model ----
(***************************************************************************)
(* Resumable batch-enrichment pipeline of the vocabulary generator.        *)
(*                                                                         *)
(*   letter stage : reference-docs/01_01_generate_word_list.py             *)
(*   word stage   : reference-docs/01_03_Detailed_Dictionary.py            *)
(*                                                                         *)
(* One behaviour follows one stage (chosen in Init) over any number of     *)
(* consecutive executions of its script against the same files.  The       *)
(* remote generate-content call, the file system and process termination   *)
(* are the environment: their outcomes are chosen nondeterministically.    *)
(***************************************************************************)
EXTENDS Integers, Sequences, FiniteSets, TLC

(* ---------------------------- bounds ----------------------------------- *)
\* letters of the alphabet the loops run over (26 in the code)
NumLetters == 2
\* words a letter can have (about 100 in the code)
MaxWords == 1

(* --------------------------- constants --------------------------------- *)
ascii_uppercase ==
  << "A", "B", "C", "D", "E", "F", "G", "H", "I", "J", "K", "L", "M",
     "N", "O", "P", "Q", "R", "S", "T", "U", "V", "W", "X", "Y", "Z" >>

\* get_words_for_alphabet_with_retry(letter, logger, max_retries=3, base_delay=2)
\* (a retry budget that is one too large)
L_max_retries_off == 4
L_max_retries == 3
L_base_delay == 2
\* get_detailed_word_info(word, letter, max_retries=3, base_delay=5)
W_max_retries == 3
W_base_delay == 5

(* ------------------------ values and helpers --------------------------- *)
\* the empty dict {}
EmptyDict == [k \in {} |-> ""]

\* d[k] = v on a dict
DictSet(d, k, v) == [x \in (DOMAIN d) \cup {k} |-> IF x = k THEN v ELSE d[x]]

Letter(n) == ascii_uppercase[n]
Letters == {Letter(n) : n \in 1..NumLetters}

RECURSIVE Suffix(_)
Suffix(n) == IF n = 0 THEN "" ELSE "x" \o Suffix(n - 1)
\* the n-th word of a letter: "Ax", "Axx", ...
Word(letter, n) == letter \o Suffix(n)
WordsOf(letter) == {Word(letter, n) : n \in 1..MaxWords}

ValidComplexity == {"Intermediate", "Advanced"}
\* the content of a file: absent, not parseable as JSON, or a JSON document
Missing == [kind |-> "missing", doc |-> EmptyDict]
Corrupt == [kind |-> "corrupt", doc |-> EmptyDict]
Valid(d) == [kind |-> "valid", doc |-> d]

\* Python truthiness of a controller result (None and {} are falsy)
None == [kind |-> "None", data |-> EmptyDict]
Dict(d) == [kind |-> "dict", data |-> d]
\* a test that takes every dict, the empty one included
Truthy_not_none(r) == r.kind = "dict"
Truthy(r) == r.kind = "dict" /\ DOMAIN r.data # {}

(* ------------------- letter stage: pure functions ---------------------- *)
StatComplexity(word_data) ==
  IF "complexity" \in DOMAIN word_data /\ word_data.complexity \in ValidComplexity
  THEN word_data.complexity
  ELSE "Intermediate"

\* dist[k] = dist.get(k, 0) + 1 over the items, keys[e] being the k of item e
Histogram(keys) ==
  [v \in {keys[e] : e \in DOMAIN keys} |->
     Cardinality({e \in DOMAIN keys : keys[e] = v})]

\* a dict key that is a Python int, and the string json.dump writes for it
IntKey(n) == [int |-> n]
StrKey(s) == [str |-> s]
Digit == << "0", "1", "2", "3", "4", "5", "6", "7", "8", "9" >>
RECURSIVE str(_)
str(n) == IF n < 10 THEN Digit[n + 1] ELSE str(n \div 10) \o Digit[(n % 10) + 1]
JsonKey(k) == IF "int" \in DOMAIN k THEN StrKey(str(k.int)) ELSE k
JsonKeys(d) ==
  [k \in {JsonKey(x) : x \in DOMAIN d} |->
     d[CHOOSE x \in DOMAIN d : JsonKey(x) = k]]

\* json.dump followed by json.load: int keys of word_length_stats come
\* back as strings, everything else is unchanged
JsonStatistics(st) ==
  IF "word_length_stats" \in DOMAIN st
  THEN DictSet(st, "word_length_stats", JsonKeys(st.word_length_stats))
  ELSE st
JsonBucket(b) ==
  IF "statistics" \in DOMAIN b
  THEN DictSet(b, "statistics", JsonStatistics(b.statistics))
  ELSE b
JsonDump(doc) == [l \in DOMAIN doc |-> JsonBucket(doc[l])]

calculate_word_statistics(word_batch) ==
  IF DOMAIN word_batch = {}
  THEN [ total_words |-> 0,
         complexity_distribution |-> EmptyDict,
         word_length_stats |-> EmptyDict,
         part_of_speech_distribution |-> EmptyDict ]
  ELSE LET cx == [w \in DOMAIN word_batch |-> StatComplexity(word_batch[w])]
           ln == [w \in DOMAIN word_batch |-> IntKey(Len(w))]
       IN [ total_words |-> Cardinality(DOMAIN word_batch),
            complexity_distribution |-> Histogram(cx),
            word_length_stats |-> Histogram(ln),
            part_of_speech_distribution |-> EmptyDict ]

L_FixComplexity_to_advanced(word_info) ==
  IF "complexity" \notin DOMAIN word_info \/ word_info.complexity \notin ValidComplexity
  THEN DictSet(word_info, "complexity", "Advanced")
  ELSE word_info
\* lines 251-257: default a missing or unknown complexity to "Intermediate"
L_FixComplexity(word_info) ==
  IF "complexity" \notin DOMAIN word_info \/ word_info.complexity \notin ValidComplexity
  THEN DictSet(word_info, "complexity", "Intermediate")
  ELSE word_info

L_Normalize(word_data) == [w \in DOMAIN word_data |-> L_FixComplexity(word_data[w])]

\* lines 252-260: complexity_fixes, the number of word objects that were
\* changed; a warning is logged when it is not 0
L_ComplexityFixes(word_data) ==
  Cardinality({w \in DOMAIN word_data : L_FixComplexity(word_data[w]) # word_data[w]})

LetterIndex(letter) == CHOOSE n \in 1..NumLetters : Letter(n) = letter
WordIndex(letter, w) == CHOOSE n \in 1..MaxWords : Word(letter, n) = w

\* the request for a letter is the same in every call (fixed prompt, seed=0):
\* the object the service returns for a word, when it returns one, is taken
\* to be a function of the word: a valid tag, an unknown tag or no tag
L_Info(letter, word) ==
  LET n == (LetterIndex(letter) + WordIndex(letter, word)) % 3
  IN CASE n = 0 -> [complexity |-> "Advanced"]
       [] n = 1 -> [complexity |-> "Expert"]
       [] OTHER -> EmptyDict

\* what one generate_content_stream call plus parsing can come to: a dict
\* with the first n words of the letter, n = 0 included
L_RawPayloads(letter) ==
  {[w \in {Word(letter, k) : k \in 1..n} |-> L_Info(letter, w)] : n \in 0..MaxWords}

L_Outcomes(letter) ==
  {[kind |-> "json_error", data |-> EmptyDict],
   [kind |-> "api_error", data |-> EmptyDict],
   [kind |-> "not_dict", data |-> EmptyDict]}
  \cup {[kind |-> "payload", data |-> d] : d \in L_RawPayloads(letter)}

\* a seed without the key letter
L_SeedBucket_bare(letter) ==
  [ description |-> "Words starting with letter " \o letter,
    words |-> EmptyDict,
    statistics |-> calculate_word_statistics(EmptyDict) ]

\* a seed that comes with a sample word
L_SeedBucket_sample(letter) ==
  [ letter |-> letter,
    description |-> "Words starting with letter " \o letter,
    words |-> [w \in {Word(letter, 1)} |-> [complexity |-> "Intermediate"]],
    statistics |-> calculate_word_statistics(EmptyDict) ]

\* the bucket main seeds for a letter that the loaded document lacks
L_SeedBucket(letter) ==
  [ letter |-> letter,
    description |-> "Words starting with letter " \o letter,
    words |-> EmptyDict,
    statistics |-> calculate_word_statistics(EmptyDict) ]

BucketWords(letter_data) ==
  IF "words" \in DOMAIN letter_data THEN letter_data.words ELSE EmptyDict

\* lines 328-334 and 365-369: add statistics to a bucket that has none
L_EnsureStatistics(letter_data) ==
  IF "statistics" \notin DOMAIN letter_data
  THEN DictSet(letter_data, "statistics",
               calculate_word_statistics(BucketWords(letter_data)))
  ELSE letter_data

\* a loader that drops what it read
L_LoadDoc_discard(file) == EmptyDict

\* lines 319-349: the document main holds after reading the file
L_LoadDoc(file) ==
  IF file.kind = "valid"
  THEN [l \in DOMAIN file.doc |-> L_EnsureStatistics(file.doc[l])]
  ELSE EmptyDict

\* lines 352-369
L_InitStructure(doc) ==
  [l \in (DOMAIN doc) \cup Letters |->
     IF l \notin DOMAIN doc THEN L_SeedBucket(l) ELSE L_EnsureStatistics(doc[l])]

\* a skip test with the wrong threshold
L_AlreadyProcessed_off_by_one(doc, letter) ==
  doc[letter].statistics.total_words > 1

\* line 379-380: the skip test
L_AlreadyProcessed(doc, letter) == doc[letter].statistics.total_words > 0

\* line 137: for attempt in range(max_retries + 1)
L_AttemptRange == 0..L_max_retries

\* lines 274, 284: another attempt follows a failed one
L_RetryAllowed(a) == a < L_max_retries

\* a delay that grows by base_delay with every attempt
L_BackoffDelay_linear(a) == L_base_delay * (a + 1) * 1000

\* lines 275, 285: delay = base_delay * (2 ** attempt), in milliseconds
L_BackoffDelay(a) == L_base_delay * (2 ^ a) * 1000

\* a merge that stores the statistics of the batch and not its words
L_Merge_statistics_only(doc, letter, batch) ==
  [doc EXCEPT ![letter] =
     DictSet(@, "statistics", calculate_word_statistics(batch))]

\* a merge that stores the words and leaves the statistics as they were
L_Merge_stale_statistics(doc, letter, batch) ==
  [doc EXCEPT ![letter] = DictSet(@, "words", batch)]

\* lines 389-394
L_Merge(doc, letter, batch) ==
  [doc EXCEPT ![letter] =
     DictSet(DictSet(@, "words", batch), "statistics",
             calculate_word_statistics(batch))]


(* -------------------- word stage: pure functions ----------------------- *)
\* Python truthiness of word_data[field] when the field may be absent
HasField(word_data, field) == field \in DOMAIN word_data /\ word_data[field] # ""

\* the two counters of a statistic: words that have the field, words that lack it
CountHas(word_batch, field) ==
  Cardinality({w \in DOMAIN word_batch : HasField(word_batch[w], field)})
CountNo(word_batch, field) ==
  Cardinality({w \in DOMAIN word_batch : ~HasField(word_batch[w], field)})

calculate_detailed_statistics(word_batch) ==
  IF DOMAIN word_batch = {}
  THEN [ total_words |-> 0,
         complexity_distribution |-> EmptyDict,
         word_length_stats |-> EmptyDict,
         part_of_speech_distribution |-> EmptyDict,
         pronunciation_stats |-> EmptyDict,
         origin_stats |-> EmptyDict,
         phonetic_stats |-> EmptyDict,
         ssml_stats |-> EmptyDict ]
  ELSE LET cx == [w \in DOMAIN word_batch |-> StatComplexity(word_batch[w])]
           ln == [w \in DOMAIN word_batch |-> IntKey(Len(w))]
       IN [ total_words |-> Cardinality(DOMAIN word_batch),
            complexity_distribution |-> Histogram(cx),
            word_length_stats |-> Histogram(ln),
            part_of_speech_distribution |-> EmptyDict,
            pronunciation_stats |->
              [has_pronunciation |-> CountHas(word_batch, "pronunciation"),
               no_pronunciation |-> CountNo(word_batch, "pronunciation")],
            origin_stats |->
              [has_origin |-> CountHas(word_batch, "word_origin"),
               no_origin |-> CountNo(word_batch, "word_origin")],
            phonetic_stats |->
              [has_phonetic_respelling |-> CountHas(word_batch, "phonetic_respelling"),
               no_phonetic_respelling |-> CountNo(word_batch, "phonetic_respelling")],
            ssml_stats |->
              [has_ssml_phoneme |-> CountHas(word_batch, "ssml_phoneme"),
               no_ssml_phoneme |-> CountNo(word_batch, "ssml_phoneme")] ]

\* lines 260-276: defaults for complexity, phonetic_respelling, ssml_phoneme
W_Default(res, field, value) ==
  IF ~HasField(res, field) THEN DictSet(res, field, value) ELSE res

W_Normalize(res) ==
  LET r1 == IF "complexity" \notin DOMAIN res \/ res.complexity \notin ValidComplexity
            THEN DictSet(res, "complexity", "Intermediate")
            ELSE res
      r2 == W_Default(r1, "phonetic_respelling", "")
  IN W_Default(r2, "ssml_phoneme", "")

\* lines 524-530: the bucket main seeds for a letter
W_SeedBucket(letter) ==
  [ letter |-> letter,
    description |-> "Words starting with letter " \o letter,
    words |-> EmptyDict,
    statistics |-> EmptyDict ]

\* lines 315-323 and 354-366: a missing or unreadable file gives {}
load_json(file) == IF file.kind = "valid" THEN file.doc ELSE EmptyDict

\* line 533
W_HasWords(existing, letter) ==
  letter \in DOMAIN existing /\ "words" \in DOMAIN existing[letter]

\* line 545: the words of a letter in the order of the source document
W_WordList(existing, letter) ==
  LET d == existing[letter].words
      RECURSIVE from(_)
      from(n) ==
        IF n > MaxWords THEN << >>
        ELSE IF Word(letter, n) \in DOMAIN d
             THEN << Word(letter, n) >> \o from(n + 1)
             ELSE from(n + 1)
  IN from(1)

\* a skip test that looks the word up among the letters
W_AlreadyProcessed_wrong_dict(doc, letter, word) == word \in DOMAIN doc

\* line 547: the skip test
W_AlreadyProcessed(doc, letter, word) == word \in DOMAIN doc[letter].words

\* line 138: for attempt in range(max_retries + 1)
W_AttemptRange == 0..W_max_retries

\* lines 284, 297: another attempt follows a failed one
W_RetryAllowed(a) == a < W_max_retries

\* random.uniform(0, 1) is 0 + (1 - 0) * random(), at least 0 and below 1:
\* some of its values, in milliseconds
W_Jitter == {0, 500, 999}
\* lines 285, 298: delay = base_delay * (2 ** attempt) + random.uniform(0, 1),
\* in milliseconds
W_BackoffDelay(a, jitter) == W_base_delay * (2 ^ a) * 1000 + jitter

\* lines 261-264: the complexity warning of get_detailed_word_info
W_ComplexityWarning(res) ==
  "complexity" \notin DOMAIN res \/ res.complexity \notin ValidComplexity

\* line 559
W_Merge(doc, letter, word, info) ==
  [doc EXCEPT ![letter] = DictSet(@, "words", DictSet(@.words, word, info))]

\* lines 381-383 and 575-576
W_UpdateStatistics(doc, letter) ==
  IF letter \in DOMAIN doc /\ "words" \in DOMAIN doc[letter]
  THEN [doc EXCEPT ![letter] =
          DictSet(@, "statistics", calculate_detailed_statistics(@.words))]
  ELSE doc

(* ------------------------------ state ---------------------------------- *)
VARIABLES
  stage,              \* "letter" (01_01) or "word" (01_03)
  adapter,            \* the remote service: any answer, or a fixed one per key
  faulty,             \* writes of the checkpoint file can fail
  run,                \* 1 in the first execution of the script, 2 in a later one
  pc,                 \* position of the script
  i,                  \* index of the current letter (enumerate, from 0)
  j,                  \* index of the current word of the letter (word stage)
  attempt,            \* loop variable of the retry loop
  result,             \* what the controller returned (word_batch / detailed_info)
  all_words,          \* letter stage: the in-memory document
  file01,             \* 99_01_English_Words.json
  choice,             \* word stage: "1" resume, "2" start fresh
  existing_data,      \* word stage: the catalog read from file01
  comprehensive_data, \* word stage: the in-memory document
  file02,             \* 99_02_comprehensive_english_dict.json
  backup,             \* 99_02_comprehensive_english_dict_backup.json
  \* history
  invocations,        \* external calls made for the current item in this run
  called,             \* keys the external call was invoked for in this run
  startFile,          \* the checkpoint file when this run started
  saveFailed,         \* a write of the checkpoint failed in this run
  unsaved,            \* the last write of the checkpoint failed
  lastSaved,          \* checkpoint file after the last save that succeeded
  prevFailed,         \* key whose terminal failure was the last controller result
  slept,              \* milliseconds the last step spent in time.sleep (0: none)
  warned,             \* the last step logged a complexity warning
  failed,             \* keys whose controller returned None in this run
  readFailed,         \* reading the checkpoint file raised in this run
  merged,             \* keys whose result was merged into the document in this run
  backupFailed,       \* the backup copy of a fresh start raised in this run
  \* audio stage (01_05)
  audio_folder,       \* the files of the folder audio: filename -> content
  modern_google_available, \* gcloud was found when the generator was built
  voice_index,        \* index of the current voice (from 1)
  posted,             \* synthesis requests sent in this run
  stats,              \* the counters of process_all_words
  results,            \* audio_results of the current word
  faults              \* failures the environment produced in this run

vars ==
  << stage, adapter, faulty, run, pc, i, j, attempt, result, all_words, file01,
     choice, existing_data, comprehensive_data, file02, backup, invocations,
     called, startFile, saveFailed, unsaved, lastSaved, prevFailed, slept,
     warned, failed, readFailed, merged, backupFailed, audio_folder,
     modern_google_available, voice_index, posted, stats, results, faults >>

NoKey == "-"
Terminal == {"done", "aborted", "killed"}

CheckpointFile == IF stage = "letter" THEN file01 ELSE file02
Document == IF stage = "letter" THEN all_words ELSE comprehensive_data
\* outcomes of a file operation: it can fail only in a faulty environment
IoOutcomes == IF faulty THEN BOOLEAN ELSE {TRUE}

(* ------------------------- the remote service -------------------------- *)

\* a deterministic service answers every call for a key the same way
AnyAdapter == [det |-> FALSE, plan |-> EmptyDict]

L_DetKinds == {"api_error", "empty", "full"}
L_DetOutcome(letter, kind) ==
  CASE kind = "api_error" -> [kind |-> "api_error", data |-> EmptyDict]
    [] kind = "empty" -> [kind |-> "payload", data |-> EmptyDict]
    [] kind = "full" ->
         [kind |-> "payload",
          data |-> [w \in WordsOf(letter) |-> L_Info(letter, w)]]
L_DetAdapters == {[det |-> TRUE, plan |-> p] : p \in [Letters -> L_DetKinds]}

L_Responses(letter) ==
  IF adapter.det THEN {L_DetOutcome(letter, adapter.plan[letter])}
  ELSE L_Outcomes(letter)

W_Record ==
  [complexity |-> "Advanced", phonetic_respelling |-> "uh-bate",
   ssml_phoneme |-> "ph"]
\* the request for a word is the same in every call (fixed prompt, seed=0):
\* the object the service returns for it, when it returns one, is taken to
\* be a function of the word
W_Content(letter, word) ==
  IF (LetterIndex(letter) + WordIndex(letter, word)) % 2 = 0
  THEN W_Record
  ELSE [complexity |-> "Expert", phonetic_respelling |-> "uh-bate"]
W_Payload(letter, word) == [kind |-> "payload", data |-> W_Content(letter, word)]
W_Failures ==
  {[kind |-> "json_error", data |-> EmptyDict],
   [kind |-> "api_error", data |-> EmptyDict],
   [kind |-> "not_dict", data |-> EmptyDict]}

W_DetKinds == {"api_error", "full"}
W_DetOutcome(letter, word, kind) ==
  IF kind = "api_error"
  THEN [kind |-> "api_error", data |-> EmptyDict]
  ELSE W_Payload(letter, word)
\* the words of the catalog the word stage is run on: MaxWords words for the
\* first letter, one word for the second, none for the others
W_CatalogWords(l) ==
  IF l = Letter(1) THEN WordsOf(l)
  ELSE IF l = Letter(2) THEN {Word(l, 1)} ELSE {}
AllWords == UNION {W_CatalogWords(l) : l \in Letters}
W_DetAdapters == {[det |-> TRUE, plan |-> p] : p \in [AllWords -> W_DetKinds]}

W_Responses(letter, word) ==
  IF adapter.det THEN {W_DetOutcome(letter, word, adapter.plan[word])}
  ELSE W_Failures \cup {W_Payload(letter, word)}

(* --------------------- letter stage: initial files --------------------- *)
L_Record == [complexity |-> "Advanced"]
\* a bucket as the letter stage writes it
L_SavedBucket(letter, words) ==
  JsonBucket(DictSet(DictSet(L_SeedBucket(letter), "words", words),
                     "statistics", calculate_word_statistics(words)))
\* a bucket of an older format, without statistics
L_LegacyBucket(letter, words) ==
  [letter |-> letter, words |-> words]
L_InitBuckets(letter) ==
  LET words == [w \in {Word(letter, 1)} |-> L_Record]
  IN {L_SavedBucket(letter, words), L_LegacyBucket(letter, words)}

\* no file, an unreadable file, or a document with the bucket of one letter
L_InitFiles ==
  {Missing, Corrupt}
  \cup UNION {{Valid([l \in {letter} |-> b]) : b \in L_InitBuckets(letter)} :
               letter \in Letters}

(* ---------------------- word stage: initial files ---------------------- *)
\* a bucket as the word stage writes it
W_SavedBucket(letter, words) ==
  JsonBucket(DictSet(DictSet(W_SeedBucket(letter), "words", words),
                     "statistics", calculate_detailed_statistics(words)))

\* the catalog is the file the letter stage wrote, with the words of
\* W_CatalogWords; the same without the bucket of the last letter; the same
\* with no word for the first letter; or the file is absent or unreadable
W_FullCatalog ==
  [l \in Letters |-> L_SavedBucket(l, [w \in W_CatalogWords(l) |-> L_Record])]
W_Catalogs ==
  { Missing, Corrupt,
    Valid(W_FullCatalog),
    Valid([l \in Letters \ {Letter(NumLetters)} |-> W_FullCatalog[l]]),
    Valid([W_FullCatalog EXCEPT ![Letter(1)] = L_SavedBucket(Letter(1), EmptyDict)]) }

\* no checkpoint, an unreadable one, or one with the first word done
W_InitFiles ==
  {Missing, Corrupt,
   Valid([l \in {Letter(1)} |->
            W_SavedBucket(l, [w \in {Word(l, 1)} |-> W_Record])])}

(* ------------------------------ Init ----------------------------------- *)
L_Init ==
  /\ stage = "letter"
  /\ file01 \in L_InitFiles
  /\ all_words = EmptyDict
  /\ choice = "1" /\ existing_data = EmptyDict /\ comprehensive_data = EmptyDict
  /\ file02 = Missing /\ backup = Missing
  /\ startFile = file01 /\ lastSaved = file01

W_Init ==
  /\ stage = "word"
  /\ file01 \in W_Catalogs
  /\ file02 \in W_InitFiles
  /\ backup = Missing
  /\ all_words = EmptyDict
  /\ choice = "1" /\ existing_data = EmptyDict /\ comprehensive_data = EmptyDict
  /\ startFile = file02 /\ lastSaved = file02

\* the letter and the word stage do not touch the audio stage's state
A_Idle ==
  /\ audio_folder = EmptyDict /\ modern_google_available = FALSE
  /\ voice_index = 0 /\ posted = << >> /\ results = EmptyDict /\ faults = 0
  /\ stats = EmptyDict

InitState ==
  /\ run = 1 /\ pc = "load" /\ i = 0 /\ j = 0 /\ attempt = 0 /\ result = None
  /\ invocations = 0 /\ called = << >>
  /\ saveFailed = FALSE /\ unsaved = FALSE /\ prevFailed = NoKey
  /\ slept = 0 /\ warned = FALSE /\ failed = {} /\ readFailed = FALSE
  /\ merged = << >> /\ backupFailed = FALSE
  /\ A_Idle
  /\ (L_Init \/ W_Init)

\* any service, any file system
Init ==
  /\ adapter = AnyAdapter
  /\ faulty = TRUE
  /\ InitState

(* ------------------------ letter stage: main --------------------------- *)
\* a loop that walks the alphabet from its end
L_letter_reversed == Letter(NumLetters - i)
\* line 373: for i, letter in enumerate(string.ascii_uppercase)
L_letter == Letter(i + 1)

\* lines 314-349: the file is read when it exists; when open or json.load
\* raises, JSONDecodeError or any other exception, main goes on with {}
L_Load ==
  /\ stage = "letter" /\ pc = "load"
  /\ \E ok \in IoOutcomes :
       /\ readFailed' = (file01.kind # "missing" /\ ~ok)
       /\ all_words' = IF readFailed' THEN EmptyDict ELSE L_LoadDoc(file01)
  /\ pc' = "init"
  /\ slept' = 0 /\ warned' = FALSE
  /\ UNCHANGED << stage, adapter, faulty, run, i, j, attempt, result, file01,
                  choice, existing_data, comprehensive_data, file02, backup,
                  invocations, called, startFile, saveFailed, unsaved,
                  lastSaved, prevFailed, failed, merged, backupFailed,
                  audio_folder, modern_google_available, voice_index, posted,
                  stats, results, faults >>

\* lines 351-369
L_Initialize ==
  /\ stage = "letter" /\ pc = "init"
  /\ all_words' = L_InitStructure(all_words)
  /\ i' = 0
  /\ pc' = "loop"
  /\ slept' = 0 /\ warned' = FALSE
  /\ UNCHANGED << stage, adapter, faulty, run, j, attempt, result, file01,
                  choice, existing_data, comprehensive_data, file02, backup,
                  invocations, called, startFile, saveFailed, unsaved,
                  lastSaved, prevFailed, failed, readFailed, merged,
                  backupFailed, audio_folder, modern_google_available,
                  voice_index, posted, stats, results, faults >>

\* lines 373-385: next letter, skip test, entry of the controller
L_Loop ==
  /\ stage = "letter" /\ pc = "loop"
  /\ IF i >= NumLetters
     THEN /\ pc' = "done"
          /\ UNCHANGED << i, attempt, invocations >>
     ELSE IF L_AlreadyProcessed(all_words, L_letter)
          THEN /\ i' = i + 1
               /\ UNCHANGED << pc, attempt, invocations >>
          ELSE /\ pc' = "call"
               /\ attempt' = 0
               /\ invocations' = 0
               /\ UNCHANGED i
  /\ slept' = 0 /\ warned' = FALSE
  /\ UNCHANGED << stage, adapter, faulty, run, j, result, all_words, file01,
                  choice, existing_data, comprehensive_data, file02, backup,
                  called, startFile, saveFailed, unsaved, lastSaved,
                  prevFailed, failed, readFailed, merged, backupFailed,
                  audio_folder, modern_google_available, voice_index, posted,
                  stats, results, faults >>

\* lines 137-290: one attempt of get_words_for_alphabet_with_retry
L_Call ==
  /\ stage = "letter" /\ pc = "call"
  /\ \E r \in L_Responses(L_letter) :
       /\ invocations' = invocations + 1
       /\ called' = IF attempt = 0 THEN Append(called, L_letter) ELSE called
       /\ IF r.kind = "payload"
          THEN /\ result' = Dict(L_Normalize(r.data))
               /\ warned' = (L_ComplexityFixes(r.data) > 0)
               /\ pc' = "returned"
               /\ prevFailed' = NoKey
          ELSE /\ warned' = FALSE
               /\ IF L_RetryAllowed(attempt)
                  THEN /\ pc' = "backoff"
                       /\ UNCHANGED << result, prevFailed >>
                  ELSE /\ result' = None
                       /\ pc' = "returned"
                       /\ prevFailed' = L_letter
  /\ slept' = 0
  /\ UNCHANGED << stage, adapter, faulty, run, i, j, attempt, all_words,
                  file01, choice, existing_data, comprehensive_data, file02,
                  backup, startFile, saveFailed, unsaved, lastSaved, failed,
                  readFailed, merged, backupFailed, audio_folder,
                  modern_google_available, voice_index, posted, stats,
                  results, faults >>

\* lines 275-277, 285-287: time.sleep(delay), then the next attempt
L_Backoff ==
  /\ stage = "letter" /\ pc = "backoff"
  /\ attempt' = attempt + 1
  /\ slept' = L_BackoffDelay(attempt)
  /\ IF attempt + 1 \in L_AttemptRange
     THEN pc' = "call" /\ UNCHANGED << result, prevFailed >>
     ELSE result' = None /\ pc' = "returned" /\ prevFailed' = L_letter
  /\ warned' = FALSE
  /\ UNCHANGED << stage, adapter, faulty, run, i, j, all_words, file01,
                  choice, existing_data, comprehensive_data, file02, backup,
                  invocations, called, startFile, saveFailed, unsaved,
                  lastSaved, failed, readFailed, merged, backupFailed,
                  audio_folder, modern_google_available, voice_index, posted,
                  stats, results, faults >>

\* a main that logs the save error and goes on
L_OnSaveError_goes_on == "delay"
\* line 416: what main does when the checkpoint cannot be written (break)
L_OnSaveError == "aborted"
\* a main that stops at the first terminal failure
L_OnTerminalFailure_break == "aborted"
\* lines 418-419: what main does after a terminal failure (go on)
L_OnTerminalFailure == "delay"

\* lines 387-403 and 417-419
L_Returned ==
  /\ stage = "letter" /\ pc = "returned"
  /\ IF Truthy(result)
     THEN /\ all_words' = L_Merge(all_words, L_letter, result.data)
          /\ pc' = "save_open"
     ELSE /\ pc' = L_OnTerminalFailure
          /\ UNCHANGED all_words
  /\ failed' = IF result = None THEN failed \cup {L_letter} ELSE failed
  /\ merged' = IF Truthy(result) THEN Append(merged, L_letter) ELSE merged
  /\ attempt' = 0 /\ invocations' = 0
  /\ slept' = 0 /\ warned' = FALSE
  /\ UNCHANGED << stage, adapter, faulty, run, i, j, result, file01, choice,
                  existing_data, comprehensive_data, file02, backup, called,
                  startFile, saveFailed, unsaved, lastSaved, prevFailed,
                  readFailed, backupFailed, audio_folder,
                  modern_google_available, voice_index, posted, stats,
                  results, faults >>

\* line 406: open(output_filename, 'w') truncates the file or raises
L_SaveOpen ==
  /\ stage = "letter" /\ pc = "save_open"
  /\ \E ok \in IoOutcomes :
       IF ok
       THEN /\ file01' = Corrupt
            /\ pc' = "save_write"
            /\ UNCHANGED << saveFailed, unsaved >>
       ELSE /\ pc' = L_OnSaveError
            /\ saveFailed' = TRUE
            /\ unsaved' = TRUE
            /\ UNCHANGED file01
  /\ slept' = 0 /\ warned' = FALSE
  /\ UNCHANGED << stage, adapter, faulty, run, i, j, attempt, result,
                  all_words, choice, existing_data, comprehensive_data,
                  file02, backup, invocations, called, startFile, lastSaved,
                  prevFailed, failed, readFailed, merged, backupFailed,
                  audio_folder, modern_google_available, voice_index, posted,
                  stats, results, faults >>

\* line 407: json.dump writes the document or raises part-way
L_SaveWrite ==
  /\ stage = "letter" /\ pc = "save_write"
  /\ \E ok \in IoOutcomes :
       IF ok
       THEN /\ file01' = Valid(JsonDump(all_words))
            /\ lastSaved' = Valid(JsonDump(all_words))
            /\ unsaved' = FALSE
            /\ pc' = "delay"
            /\ UNCHANGED saveFailed
       ELSE /\ file01' = Corrupt
            /\ pc' = L_OnSaveError
            /\ saveFailed' = TRUE
            /\ unsaved' = TRUE
            /\ UNCHANGED lastSaved
  /\ slept' = 0 /\ warned' = FALSE
  /\ UNCHANGED << stage, adapter, faulty, run, i, j, attempt, result,
                  all_words, choice, existing_data, comprehensive_data,
                  file02, backup, invocations, called, startFile, prevFailed,
                  failed, readFailed, merged, backupFailed, audio_folder,
                  modern_google_available, voice_index, posted, stats,
                  results, faults >>

\* lines 421-424: time.sleep(2) except after the last letter
L_Delay ==
  /\ stage = "letter" /\ pc = "delay"
  /\ slept' = IF i < NumLetters - 1 THEN 2000 ELSE 0
  /\ i' = i + 1
  /\ pc' = "loop"
  /\ warned' = FALSE
  /\ UNCHANGED << stage, adapter, faulty, run, j, attempt, result, all_words,
                  file01, choice, existing_data, comprehensive_data, file02,
                  backup, invocations, called, startFile, saveFailed,
                  unsaved, lastSaved, prevFailed, failed, readFailed, merged,
                  backupFailed, audio_folder, modern_google_available,
                  voice_index, posted, stats, results, faults >>

(* ------------------------- word stage: main ---------------------------- *)
W_letter == Letter(i + 1)
W_word == W_WordList(existing_data, W_letter)[j + 1]

\* lines 464-500: the prompt, both loads, the backup of a fresh start
\* what shutil.copy2 can come to: the copy is made, or it raises before it
\* has opened the target, or it raises after it has truncated the target
W_CopyOutcomes ==
  IF faulty THEN {"copied", "unchanged", "truncated"} ELSE {"copied"}
\* a fresh start that makes no backup
W_Backup_none(file, old, outcome) == old
\* lines 489-500: shutil.copy2 of an existing checkpoint file to the backup
\* file; when the copy raises, a warning is logged and main goes on
W_Backup(file, old, outcome) ==
  IF file.kind = "missing" THEN old
  ELSE CASE outcome = "copied" -> file
         [] outcome = "unchanged" -> old
         [] OTHER -> Corrupt

\* both loaders catch FileNotFoundError and JSONDecodeError only (lines
\* 318-323, 357-364): any other exception of open or json.load ends the
\* process
W_Load ==
  /\ stage = "word" /\ pc = "load"
  /\ \E c \in {"1", "2"}, ok \in IoOutcomes, copied \in W_CopyOutcomes :
       /\ choice' = c
       /\ readFailed' =
            (~ok /\ (file01.kind # "missing" \/ (c = "1" /\ file02.kind # "missing")))
       /\ IF readFailed'
          THEN /\ pc' = "killed"
               /\ UNCHANGED << existing_data, comprehensive_data, backup,
                               backupFailed >>
          ELSE /\ pc' = "letter"
               /\ existing_data' = load_json(file01)
               /\ IF c = "1"
                  THEN /\ comprehensive_data' = load_json(file02)
                       /\ UNCHANGED << backup, backupFailed >>
                  ELSE /\ comprehensive_data' = EmptyDict
                       /\ backup' = W_Backup(file02, backup, copied)
                       /\ backupFailed' =
                            (file02.kind # "missing" /\ copied # "copied")
  /\ i' = 0
  /\ slept' = 0 /\ warned' = FALSE
  /\ UNCHANGED << stage, adapter, faulty, run, j, attempt, result, all_words,
                  file01, file02, invocations, called, startFile, saveFailed,
                  unsaved, lastSaved, prevFailed, failed, merged,
                  audio_folder, modern_google_available, voice_index, posted,
                  stats, results, faults >>

\* lines 518-543 and 582-587: next letter, seeding of its bucket
W_Letter ==
  /\ stage = "word" /\ pc = "letter"
  /\ IF i >= NumLetters
     THEN /\ pc' = "final_open"
          /\ UNCHANGED << i, j, comprehensive_data >>
     ELSE /\ comprehensive_data' =
               IF W_letter \notin DOMAIN comprehensive_data
               THEN DictSet(comprehensive_data, W_letter, W_SeedBucket(W_letter))
               ELSE comprehensive_data
          /\ IF W_HasWords(existing_data, W_letter)
             THEN pc' = "word" /\ j' = 0 /\ UNCHANGED i
             ELSE i' = i + 1 /\ UNCHANGED << pc, j >>
  /\ slept' = 0 /\ warned' = FALSE
  /\ UNCHANGED << stage, adapter, faulty, run, attempt, result, all_words,
                  file01, choice, existing_data, file02, backup, invocations,
                  called, startFile, saveFailed, unsaved, lastSaved,
                  prevFailed, failed, readFailed, merged, backupFailed,
                  audio_folder, modern_google_available, voice_index, posted,
                  stats, results, faults >>

\* lines 545-556 and 574-576: next word, skip test, entry of the controller;
\* after the last word the statistics of the letter
W_Word ==
  /\ stage = "word" /\ pc = "word"
  /\ IF j >= Len(W_WordList(existing_data, W_letter))
     THEN /\ comprehensive_data' = W_UpdateStatistics(comprehensive_data, W_letter)
          /\ i' = i + 1
          /\ pc' = "letter"
          /\ UNCHANGED << j, attempt, invocations >>
     ELSE IF W_AlreadyProcessed(comprehensive_data, W_letter, W_word)
          THEN /\ j' = j + 1
               /\ UNCHANGED << pc, i, attempt, invocations, comprehensive_data >>
          ELSE /\ pc' = "call"
               /\ attempt' = 0
               /\ invocations' = 0
               /\ UNCHANGED << i, j, comprehensive_data >>
  /\ slept' = 0 /\ warned' = FALSE
  /\ UNCHANGED << stage, adapter, faulty, run, result, all_words, file01,
                  choice, existing_data, file02, backup, called, startFile,
                  saveFailed, unsaved, lastSaved, prevFailed, failed,
                  readFailed, merged, backupFailed, audio_folder,
                  modern_google_available, voice_index, posted, stats,
                  results, faults >>

\* lines 138-305: one attempt of get_detailed_word_info
W_Call ==
  /\ stage = "word" /\ pc = "call"
  /\ \E r \in W_Responses(W_letter, W_word) :
       /\ invocations' = invocations + 1
       /\ called' = IF attempt = 0 THEN Append(called, W_word) ELSE called
       /\ IF r.kind = "payload"
          THEN /\ result' = Dict(W_Normalize(r.data))
               /\ warned' = W_ComplexityWarning(r.data)
               /\ pc' = "returned"
               /\ prevFailed' = NoKey
          ELSE /\ warned' = FALSE
               /\ IF W_RetryAllowed(attempt)
                  THEN /\ pc' = "backoff"
                       /\ UNCHANGED << result, prevFailed >>
                  ELSE /\ result' = None
                       /\ pc' = "returned"
                       /\ prevFailed' = W_word
  /\ slept' = 0
  /\ UNCHANGED << stage, adapter, faulty, run, i, j, attempt, all_words,
                  file01, choice, existing_data, comprehensive_data, file02,
                  backup, startFile, saveFailed, unsaved, lastSaved, failed,
                  readFailed, merged, backupFailed, audio_folder,
                  modern_google_available, voice_index, posted, stats,
                  results, faults >>

\* lines 285-288, 298-301: time.sleep(delay), then the next attempt
W_Backoff ==
  /\ stage = "word" /\ pc = "backoff"
  /\ attempt' = attempt + 1
  /\ \E jitter \in W_Jitter : slept' = W_BackoffDelay(attempt, jitter)
  /\ IF attempt + 1 \in W_AttemptRange
     THEN pc' = "call" /\ UNCHANGED << result, prevFailed >>
     ELSE result' = None /\ pc' = "returned" /\ prevFailed' = W_word
  /\ warned' = FALSE
  /\ UNCHANGED << stage, adapter, faulty, run, i, j, all_words, file01,
                  choice, existing_data, comprehensive_data, file02, backup,
                  invocations, called, startFile, saveFailed, unsaved,
                  lastSaved, failed, readFailed, merged, backupFailed,
                  audio_folder, modern_google_available, voice_index, posted,
                  stats, results, faults >>

\* a main that ends the run when a checkpoint cannot be written
W_OnSaveError_stop == "done"
\* lines 339-341 and 389-391: save_comprehensive_data and save_checkpoint
\* log the error and return, main goes on
W_OnSaveError == "sleep"

\* lines 558-568, with the statistics update of save_checkpoint (381-383)
W_Returned ==
  /\ stage = "word" /\ pc = "returned"
  /\ IF Truthy(result)
     THEN /\ comprehensive_data' =
               W_UpdateStatistics(
                 W_Merge(comprehensive_data, W_letter, W_word, result.data),
                 W_letter)
          /\ pc' = "ckpt_open"
     ELSE /\ pc' = "sleep"
          /\ UNCHANGED comprehensive_data
  /\ failed' = IF result = None THEN failed \cup {W_word} ELSE failed
  /\ merged' = IF Truthy(result) THEN Append(merged, W_word) ELSE merged
  /\ attempt' = 0 /\ invocations' = 0
  /\ slept' = 0 /\ warned' = FALSE
  /\ UNCHANGED << stage, adapter, faulty, run, i, j, result, all_words,
                  file01, choice, existing_data, file02, backup, called,
                  startFile, saveFailed, unsaved, lastSaved, prevFailed,
                  readFailed, backupFailed, audio_folder,
                  modern_google_available, voice_index, posted, stats,
                  results, faults >>

\* line 335: open(filename, "w") truncates the file or raises
W_SaveOpen ==
  /\ stage = "word" /\ pc \in {"ckpt_open", "final_open"}
  /\ \E ok \in IoOutcomes :
       IF ok
       THEN /\ file02' = Corrupt
            /\ pc' = IF pc = "ckpt_open" THEN "ckpt_write" ELSE "final_write"
            /\ UNCHANGED << saveFailed, unsaved >>
       ELSE /\ pc' = IF pc = "ckpt_open" THEN W_OnSaveError ELSE "done"
            /\ saveFailed' = TRUE
            /\ unsaved' = TRUE
            /\ UNCHANGED file02
  /\ slept' = 0 /\ warned' = FALSE
  /\ UNCHANGED << stage, adapter, faulty, run, i, j, attempt, result,
                  all_words, file01, choice, existing_data,
                  comprehensive_data, backup, invocations, called, startFile,
                  lastSaved, prevFailed, failed, readFailed, merged,
                  backupFailed, audio_folder, modern_google_available,
                  voice_index, posted, stats, results, faults >>

\* line 336: json.dump writes the document or raises part-way
W_SaveWrite ==
  /\ stage = "word" /\ pc \in {"ckpt_write", "final_write"}
  /\ \E ok \in IoOutcomes :
       IF ok
       THEN /\ file02' = Valid(JsonDump(comprehensive_data))
            /\ lastSaved' = Valid(JsonDump(comprehensive_data))
            /\ unsaved' = FALSE
            /\ pc' = IF pc = "ckpt_write" THEN "sleep" ELSE "done"
            /\ UNCHANGED saveFailed
       ELSE /\ file02' = Corrupt
            /\ pc' = IF pc = "ckpt_write" THEN W_OnSaveError ELSE "done"
            /\ saveFailed' = TRUE
            /\ unsaved' = TRUE
            /\ UNCHANGED lastSaved
  /\ slept' = 0 /\ warned' = FALSE
  /\ UNCHANGED << stage, adapter, faulty, run, i, j, attempt, result,
                  all_words, file01, choice, existing_data,
                  comprehensive_data, backup, invocations, called, startFile,
                  prevFailed, failed, readFailed, merged, backupFailed,
                  audio_folder, modern_google_available, voice_index, posted,
                  stats, results, faults >>

\* lines 570-572: time.sleep(1) after every attempted word
W_Sleep ==
  /\ stage = "word" /\ pc = "sleep"
  /\ slept' = 1000
  /\ j' = j + 1
  /\ pc' = "word"
  /\ warned' = FALSE
  /\ UNCHANGED << stage, adapter, faulty, run, i, attempt, result, all_words,
                  file01, choice, existing_data, comprehensive_data, file02,
                  backup, invocations, called, startFile, saveFailed,
                  unsaved, lastSaved, prevFailed, failed, readFailed, merged,
                  backupFailed, audio_folder, modern_google_available,
                  voice_index, posted, stats, results, faults >>

(* --------------------------- environment ------------------------------- *)
\* the process is terminated (interrupt, kill, power loss)
\* and what it held in memory is gone
Kill ==
  /\ pc \notin Terminal
  /\ pc' = "killed"
  /\ i' = 0 /\ j' = 0 /\ attempt' = 0 /\ result' = None
  /\ all_words' = EmptyDict
  /\ comprehensive_data' = EmptyDict /\ existing_data' = EmptyDict
  /\ failed' = {}
  /\ slept' = 0 /\ warned' = FALSE
  /\ UNCHANGED << stage, adapter, faulty, run, file01, choice, file02,
                  backup, invocations, called, startFile, saveFailed,
                  unsaved, lastSaved, prevFailed, readFailed, merged,
                  backupFailed, audio_folder, modern_google_available,
                  voice_index, posted, stats, results, faults >>

\* the script is started again on the files the last run left
StartRun ==
  /\ pc \in Terminal
  /\ run' = IF run = 1 THEN 2 ELSE run
  /\ pc' = "load"
  /\ i' = 0 /\ j' = 0 /\ attempt' = 0 /\ result' = None
  /\ all_words' = EmptyDict
  /\ comprehensive_data' = EmptyDict /\ existing_data' = EmptyDict
  /\ invocations' = 0 /\ called' = << >>
  /\ saveFailed' = FALSE /\ unsaved' = FALSE /\ prevFailed' = NoKey
  /\ startFile' = CheckpointFile
  /\ lastSaved' = CheckpointFile
  /\ choice' = "1"
  /\ slept' = 0 /\ warned' = FALSE /\ failed' = {} /\ readFailed' = FALSE
  /\ merged' = << >> /\ backupFailed' = FALSE
  /\ UNCHANGED << stage, adapter, faulty, file01, file02, backup, audio_folder,
                  modern_google_available, voice_index, posted, stats, results, faults >>

Next ==
  \/ L_Load \/ L_Initialize \/ L_Loop \/ L_Call \/ L_Backoff
  \/ L_Returned \/ L_SaveOpen \/ L_SaveWrite \/ L_Delay
  \/ W_Load \/ W_Letter \/ W_Word \/ W_Call \/ W_Backoff
  \/ W_Returned \/ W_SaveOpen \/ W_SaveWrite \/ W_Sleep
  \/ Kill \/ StartRun

Spec == Init /\ [][Next]_vars

\* a deterministic (mocked) service and a file system without failures
InitResume ==
  /\ faulty = FALSE
  /\ InitState
  /\ adapter \in (IF stage = "letter" THEN L_DetAdapters ELSE W_DetAdapters)

NextResume ==
  \/ L_Load \/ L_Initialize \/ L_Loop \/ L_Call \/ L_Backoff
  \/ L_Returned \/ L_SaveOpen \/ L_SaveWrite \/ L_Delay
  \/ W_Load \/ W_Letter \/ W_Word \/ W_Call \/ W_Backoff
  \/ W_Returned \/ W_SaveOpen \/ W_SaveWrite \/ W_Sleep
  \/ StartRun

SpecResume == InitResume /\ [][NextResume]_vars


(* ------------------ one run that is left to itself --------------------- *)
\* the script has one thread of control, and its waits are timed sleeps:
\* unless the process is terminated, the step it is at is taken
NextRun ==
  \/ L_Load \/ L_Initialize \/ L_Loop \/ L_Call \/ L_Backoff
  \/ L_Returned \/ L_SaveOpen \/ L_SaveWrite \/ L_Delay
  \/ W_Load \/ W_Letter \/ W_Word \/ W_Call \/ W_Backoff
  \/ W_Returned \/ W_SaveOpen \/ W_SaveWrite \/ W_Sleep

SpecRun == Init /\ [][NextRun]_vars /\ WF_vars(NextRun)

(* ===================== audio stage (01_05) ============================== *)
\* line 63: the voices, each name as its parts between the dashes
available_voices ==
  << << "en", "US", "Chirp3", "HD", "Umbriel" >>,
     << "en", "US", "Chirp3", "HD", "Iapetus" >>,
     << "en", "US", "Chirp3", "HD", "Puck" >> >>
NumVoices == Len(available_voices)
AudioTypes == {"example", "pronunciation"}

\* line 310: voice_name.split('-')[-1]
voice_short_name(voice_name) == voice_name[Len(voice_name)]

\* lines 313-316
A_Filename(word_name, voice_name, audio_type) ==
  IF audio_type = "pronunciation"
  THEN word_name \o "-pronunciation-" \o voice_short_name(voice_name) \o ".mp3"
  ELSE word_name \o "-example_and_sample-" \o voice_short_name(voice_name) \o ".mp3"

\* the JSON value null as the entry of a word
JsonNull == [json_null |-> TRUE]

\* lines 228-251: `in` on a value that is no container raises TypeError
A_ExtractRaises(word_data) == word_data = JsonNull

\* lines 216-258
extract_word_data(word_name, word_data) ==
  LET has_meanings ==
        "meanings" \in DOMAIN word_data /\ word_data.meanings # << >>
      first_meaning == word_data.meanings[1]
      has_definitions ==
        /\ has_meanings
        /\ "definitions" \in DOMAIN first_meaning
        /\ first_meaning.definitions # << >>
      first_definition == first_meaning.definitions[1]
      top(f) == IF f \in DOMAIN word_data THEN word_data[f] ELSE ""
      inner(f) ==
        IF has_definitions /\ f \in DOMAIN first_definition
        THEN first_definition[f] ELSE ""
  IN [ word |-> word_name,
       phonetic_respelling |-> top("phonetic_respelling"),
       ssml_phoneme |-> top("ssml_phoneme"),
       definition |-> inner("definition"),
       example |-> inner("example") ]

\* line 657: the word is skipped
A_Skipped(extracted_data) ==
  extracted_data.definition = "" \/ extracted_data.example = ""

\* lines 270-291
create_text_for_tts(word_data) ==
  word_data.word \o "." \o ".." \o word_data.word \o " means: "
    \o word_data.definition
    \o (IF word_data.example # "" THEN " Example: " \o word_data.example ELSE "")

\* lines 326-331 and 343-354: what is sent to the synthesis service
A_Request(word_data, voice_name, audio_type) ==
  [ text |-> IF audio_type = "pronunciation"
             THEN ".." \o word_data.word \o ".."
             ELSE create_text_for_tts(word_data),
    name |-> voice_name ]

\* an entry of the dictionary with a definition and an example, one without
\* an example, one that is an empty object, one that is null
A_Entry ==
  [ phonetic_respelling |-> "uh-bate", ssml_phoneme |-> "ph",
    meanings |-> << [ definitions |->
                        << [ definition |-> "to lessen",
                             example |-> "the storm abated" ] >> ] >> ]
A_EntryNoExample ==
  [ phonetic_respelling |-> "uh-bate",
    meanings |-> << [ definitions |-> << [ definition |-> "to lessen" ] >> ] >> ]
A_BadEntries == {A_EntryNoExample, EmptyDict, JsonNull}

\* the dictionary is the file the word stage wrote for the words of
\* W_CatalogWords, with every entry complete or with one entry that is not;
\* or the file is absent or unreadable
A_Document(entries) ==
  [l \in Letters |->
     [ letter |-> l, words |-> [w \in W_CatalogWords(l) |-> entries[w]] ]]
A_FullEntries == [w \in AllWords |-> A_Entry]
A_Dictionaries ==
  {Missing, Corrupt, Valid(A_Document(A_FullEntries))}
  \cup {Valid(A_Document([A_FullEntries EXCEPT ![w] = e])) :
          w \in {Word(Letter(1), 1)}, e \in A_BadEntries}

\* lines 633-641
A_NoStats ==
  [ total_words |-> 0, successful_examples |-> 0,
    successful_pronunciations |-> 0, failed_generations |-> 0,
    skipped_words |-> 0, total_voices |-> NumVoices ]

\* failures of the environment in one run of the script that the model follows
MaxFaults == 1

\* what can happen in one call of generate_audio_modern_google when the
\* target file does not exist: the project lookup fails (line 336), the
\* response is not 200 or the request raises (lines 363, 384), open raises,
\* write raises after open created the file, or the file is written
A_Outcomes ==
  IF faults < MaxFaults
  THEN {"ok", "no_project", "http_error", "open_failed", "write_failed"}
  ELSE {"ok"}
A_Posts(outcome) == outcome # "no_project"

\* a test that finds no file
A_Exists_never(folder, filename) == FALSE
\* line 321: os.path.exists(filepath)
A_Exists(folder, filename) == filename \in DOMAIN folder

\* lines 308-386: the value returned
A_Returns(folder, filename, outcome) == A_Exists(folder, filename) \/ outcome = "ok"
\* a call that stores what it received whatever the status
A_Write_any_status(folder, filename, outcome) ==
  IF A_Exists(folder, filename) \/ outcome = "no_project" THEN folder
  ELSE DictSet(folder, filename, "mp3")
\* lines 308-386: the audio folder afterwards
A_Write(folder, filename, outcome) ==
  IF A_Exists(folder, filename) THEN folder
  ELSE CASE outcome = "ok" -> DictSet(folder, filename, "mp3")
         [] outcome = "write_failed" -> DictSet(folder, filename, "truncated")
         [] OTHER -> folder

A_letter == Letter(i + 1)
A_Words == W_WordList(file02.doc, A_letter)
A_word_name == A_Words[j + 1]
A_word_data == file02.doc[A_letter].words[A_word_name]
A_extracted_data == extract_word_data(A_word_name, A_word_data)
A_voice_name == available_voices[voice_index]

A_Init ==
  /\ stage = "audio"
  /\ file01 = Missing /\ backup = Missing
  /\ file02 \in A_Dictionaries
  /\ audio_folder = EmptyDict
  /\ modern_google_available \in BOOLEAN
  /\ all_words = EmptyDict
  /\ choice = "1" /\ existing_data = EmptyDict /\ comprehensive_data = EmptyDict
  /\ startFile = file02 /\ lastSaved = file02

InitAudio ==
  /\ adapter = AnyAdapter
  /\ faulty = TRUE
  /\ run = 1 /\ pc = "load" /\ i = 0 /\ j = 0 /\ attempt = 0 /\ result = None
  /\ invocations = 0 /\ called = << >>
  /\ saveFailed = FALSE /\ unsaved = FALSE /\ prevFailed = NoKey
  /\ slept = 0 /\ warned = FALSE /\ failed = {} /\ readFailed = FALSE
  /\ merged = << >> /\ backupFailed = FALSE
  /\ voice_index = 0 /\ posted = << >> /\ stats = A_NoStats /\ results = EmptyDict
  /\ faults = 0
  /\ A_Init

\* lines 630 and 186-214: load_dictionary raises when the file is absent or
\* cannot be read or parsed, and main raises again
A_Load ==
  /\ stage = "audio" /\ pc = "load"
  /\ \E ok \in IoOutcomes :
       /\ readFailed' = (file02.kind # "valid" \/ ~ok)
       /\ pc' = IF readFailed' THEN "killed" ELSE "letter"
  /\ slept' = 0 /\ warned' = FALSE
  /\ UNCHANGED << stage, adapter, faulty, run, i, j, attempt, result,
                  all_words, file01, choice, existing_data,
                  comprehensive_data, file02, backup, invocations, called,
                  startFile, saveFailed, unsaved, lastSaved, prevFailed,
                  failed, merged, backupFailed, audio_folder,
                  modern_google_available, voice_index, posted, stats,
                  results, faults >>

\* lines 646-649: the loop over the letters; lines 693-698 after it
A_Letter ==
  /\ stage = "audio" /\ pc = "letter"
  /\ IF i >= NumLetters
     THEN /\ pc' = "done"
          /\ UNCHANGED << i, j >>
     ELSE IF A_letter \in DOMAIN file02.doc /\ "words" \in DOMAIN file02.doc[A_letter]
          THEN /\ pc' = "word" /\ j' = 0
               /\ UNCHANGED i
          ELSE /\ i' = i + 1
               /\ UNCHANGED << pc, j >>
  /\ slept' = 0 /\ warned' = FALSE
  /\ UNCHANGED << stage, adapter, faulty, run, attempt, result, all_words,
                  file01, choice, existing_data, comprehensive_data, file02,
                  backup, invocations, called, startFile, saveFailed,
                  unsaved, lastSaved, prevFailed, failed, readFailed, merged,
                  backupFailed, audio_folder, modern_google_available,
                  voice_index, posted, stats, results, faults >>

\* a loop that lets the exception of a word end the process
A_OnWordError_raise == "killed"
\* lines 688-690: except Exception inside the loop: log, count, next word
A_OnWordError == "word"

\* lines 651-663 and 688-690: the loop over the words of the letter, up to
\* the call of generate_audio_for_all_voices
A_Word ==
  /\ stage = "audio" /\ pc = "word"
  /\ IF j >= Len(A_Words)
     THEN /\ i' = i + 1 /\ j' = 0 /\ pc' = "letter"
          /\ UNCHANGED << stats, results, voice_index >>
     ELSE LET counted == [stats EXCEPT !.total_words = @ + 1] IN
          IF A_ExtractRaises(A_word_data)
          THEN /\ stats' = [counted EXCEPT !.failed_generations = @ + 1]
               /\ j' = j + 1
               /\ pc' = A_OnWordError
               /\ UNCHANGED << i, results, voice_index >>
          ELSE IF A_Skipped(A_extracted_data)
          THEN /\ stats' = [counted EXCEPT !.skipped_words = @ + 1]
               /\ j' = j + 1
               /\ UNCHANGED << i, pc, results, voice_index >>
          ELSE /\ stats' = counted
               /\ results' = EmptyDict
               /\ voice_index' = 1
               /\ pc' = "voice"
               /\ UNCHANGED << i, j >>
  /\ slept' = 0 /\ warned' = FALSE
  /\ UNCHANGED << stage, adapter, faulty, run, attempt, result, all_words,
                  file01, choice, existing_data, comprehensive_data, file02,
                  backup, invocations, called, startFile, saveFailed,
                  unsaved, lastSaved, prevFailed, failed, readFailed, merged,
                  backupFailed, audio_folder, modern_google_available,
                  posted, faults >>

\* lines 479-483: the loop over the voices
A_Voice ==
  /\ stage = "audio" /\ pc = "voice"
  /\ IF voice_index > NumVoices
     THEN /\ pc' = "count"
          /\ UNCHANGED results
     ELSE /\ results' = DictSet(results, A_voice_name,
                                [example |-> FALSE, pronunciation |-> FALSE])
          /\ pc' = IF modern_google_available THEN "example" ELSE "next_voice"
  /\ slept' = 0 /\ warned' = FALSE
  /\ UNCHANGED << stage, adapter, faulty, run, i, j, attempt, result,
                  all_words, file01, choice, existing_data,
                  comprehensive_data, file02, backup, invocations, called,
                  startFile, saveFailed, unsaved, lastSaved, prevFailed,
                  failed, readFailed, merged, backupFailed, audio_folder,
                  modern_google_available, voice_index, posted, stats,
                  faults >>

\* one call of generate_audio_modern_google (lines 308-386) and the
\* assignment of its result (lines 492-497)
A_Generate(audio_type) ==
  LET filename == A_Filename(A_word_name, A_voice_name, audio_type) IN
  \E outcome \in A_Outcomes :
    /\ IF A_Exists(audio_folder, filename)
       THEN UNCHANGED << posted, faults >>
       ELSE /\ posted' = IF A_Posts(outcome)
                         THEN Append(posted, A_Request(A_extracted_data,
                                                       A_voice_name, audio_type))
                         ELSE posted
            /\ faults' = IF outcome = "ok" THEN faults ELSE faults + 1
    /\ audio_folder' = A_Write(audio_folder, filename, outcome)
    /\ results' = IF A_Returns(audio_folder, filename, outcome)
                  THEN [results EXCEPT ![A_voice_name][audio_type] = TRUE]
                  ELSE results

\* lines 492-493
A_GenerateExample ==
  /\ stage = "audio" /\ pc = "example"
  /\ A_Generate("example")
  /\ pc' = "pronunciation"
  /\ slept' = 0 /\ warned' = FALSE
  /\ UNCHANGED << stage, adapter, faulty, run, i, j, attempt, result,
                  all_words, file01, choice, existing_data,
                  comprehensive_data, file02, backup, invocations, called,
                  startFile, saveFailed, unsaved, lastSaved, prevFailed,
                  failed, readFailed, merged, backupFailed,
                  modern_google_available, voice_index, stats >>

\* lines 496-500, with the delay between requests
A_GeneratePronunciation ==
  /\ stage = "audio" /\ pc = "pronunciation"
  /\ A_Generate("pronunciation")
  /\ slept' = 1000
  /\ pc' = "next_voice"
  /\ warned' = FALSE
  /\ UNCHANGED << stage, adapter, faulty, run, i, j, attempt, result,
                  all_words, file01, choice, existing_data,
                  comprehensive_data, file02, backup, invocations, called,
                  startFile, saveFailed, unsaved, lastSaved, prevFailed,
                  failed, readFailed, merged, backupFailed,
                  modern_google_available, voice_index, stats >>

\* line 479: the next voice
A_NextVoice ==
  /\ stage = "audio" /\ pc = "next_voice"
  /\ voice_index' = voice_index + 1
  /\ pc' = "voice"
  /\ slept' = 0 /\ warned' = FALSE
  /\ UNCHANGED << stage, adapter, faulty, run, i, j, attempt, result,
                  all_words, file01, choice, existing_data,
                  comprehensive_data, file02, backup, invocations, called,
                  startFile, saveFailed, unsaved, lastSaved, prevFailed,
                  failed, readFailed, merged, backupFailed, audio_folder,
                  modern_google_available, posted, stats, results, faults >>

\* lines 673-678: the files produced or found for the word
A_TotalGenerated(audio_results) ==
  Cardinality({<< v, t >> \in (DOMAIN audio_results) \X AudioTypes :
                 audio_results[v][t]})
A_CountOf(audio_results, audio_type) ==
  Cardinality({v \in DOMAIN audio_results : audio_results[v][audio_type]})

\* a count that never reports a failed generation
A_CountStats_no_failure(st, audio_results) ==
  [st EXCEPT
     !.successful_examples = @ + A_CountOf(audio_results, "example"),
     !.successful_pronunciations = @ + A_CountOf(audio_results, "pronunciation")]
\* lines 665-681
A_CountStats(st, audio_results) ==
  [st EXCEPT
     !.successful_examples = @ + A_CountOf(audio_results, "example"),
     !.successful_pronunciations = @ + A_CountOf(audio_results, "pronunciation"),
     !.failed_generations =
        IF A_TotalGenerated(audio_results) < NumVoices * 2 THEN @ + 1 ELSE @]

\* lines 665-684: the counters of the word and the delay after it
A_Count ==
  /\ stage = "audio" /\ pc = "count"
  /\ stats' = A_CountStats(stats, results)
  /\ slept' = 2000
  /\ j' = j + 1
  /\ pc' = "word"
  /\ warned' = FALSE
  /\ UNCHANGED << stage, adapter, faulty, run, i, attempt, result, all_words,
                  file01, choice, existing_data, comprehensive_data, file02,
                  backup, invocations, called, startFile, saveFailed,
                  unsaved, lastSaved, prevFailed, failed, readFailed, merged,
                  backupFailed, audio_folder, modern_google_available,
                  voice_index, posted, results, faults >>

\* executions of the script the model follows
MaxRuns == 2

\* the script is started again on the files the last run left
A_StartRun ==
  /\ stage = "audio" /\ pc \in Terminal
  /\ run < MaxRuns
  /\ run' = run + 1
  /\ pc' = "load"
  /\ i' = 0 /\ j' = 0 /\ voice_index' = 0
  /\ stats' = A_NoStats /\ results' = EmptyDict
  /\ posted' = << >> /\ faults' = 0
  /\ readFailed' = FALSE
  /\ slept' = 0 /\ warned' = FALSE
  /\ UNCHANGED << stage, adapter, faulty, attempt, result, all_words, file01,
                  choice, existing_data, comprehensive_data, file02, backup,
                  invocations, called, startFile, saveFailed, unsaved,
                  lastSaved, prevFailed, failed, merged, backupFailed,
                  audio_folder, modern_google_available >>

NextAudio ==
  \/ A_Load \/ A_Letter \/ A_Word \/ A_Voice
  \/ A_GenerateExample \/ A_GeneratePronunciation \/ A_NextVoice
  \/ A_Count \/ A_StartRun

SpecAudio == InitAudio /\ [][NextAudio]_vars
(* ======================================================================= *)
(*                              properties                                 *)
(* ======================================================================= *)
Range(s) == {s[k] : k \in 1..Len(s)}

\* the document the run read from the checkpoint file (a fresh start of the
\* word stage reads none, and a read that raised gives none)
LoadedDoc ==
  IF (stage = "word" /\ choice = "2") \/ readFailed THEN EmptyDict
  ELSE load_json(startFile)

\* the words that have a Record in a document
RecordsOf(doc) == UNION {DOMAIN BucketWords(doc[l]) : l \in DOMAIN doc}

\* the key the controller is working on
CurrentKey == IF stage = "letter" THEN L_letter ELSE W_word

\* the keys of the run in catalog order
RECURSIVE W_CatalogFrom(_)
W_CatalogFrom(n) ==
  IF n > NumLetters THEN << >>
  ELSE (IF W_HasWords(existing_data, Letter(n))
        THEN W_WordList(existing_data, Letter(n)) ELSE << >>)
       \o W_CatalogFrom(n + 1)
Catalog ==
  IF stage = "letter" THEN [n \in 1..NumLetters |-> Letter(n)]
  ELSE W_CatalogFrom(1)

\* a key of the catalog that the in-memory document shows as not done
Pending(key) ==
  IF stage = "letter"
  THEN all_words[key].statistics.total_words = 0
  ELSE \A l \in DOMAIN comprehensive_data :
         key \notin DOMAIN BucketWords(comprehensive_data[l])

Position(key) == CHOOSE n \in 1..Len(Catalog) : Catalog[n] = key
FirstPendingAfter(key) ==
  LET later == {n \in 1..Len(Catalog) : n > Position(key) /\ Pending(Catalog[n])}
  IN IF later = {} THEN NoKey
     ELSE Catalog[CHOOSE n \in later : \A m \in later : n <= m]

\* a key that a resume run starting from this file would attempt
PendingOnDisk(file, key) ==
  IF stage = "letter"
  THEN ~L_AlreadyProcessed(L_InitStructure(L_LoadDoc(file)), key)
  ELSE key \notin RecordsOf(load_json(file))

(* ------------------------------- C1 ------------------------------------ *)
\* C1: with max_retries = 3 one controller run makes at most 4 external
\* calls for an item; when the controller returns failure it has made
\* exactly 4, the result is None, the item has no Record in the document
\* and fails the skip test, in memory and (in a run that has read the
\* checkpoint file: letter stage and resume runs of the word stage) on a
\* reload of the checkpoint file.
C1_BoundedRetries ==
  /\ invocations <= 4
  /\ (pc = "returned" /\ prevFailed # NoKey) =>
       /\ invocations = 4
       /\ result = None
       /\ prevFailed = CurrentKey
       /\ CurrentKey \notin RecordsOf(Document)
       /\ Pending(CurrentKey)
       /\ ((stage = "letter" \/ choice = "1") /\ ~readFailed) =>
            PendingOnDisk(CheckpointFile, CurrentKey)

C1_Witness ==
  /\ stage = "word" /\ pc = "returned" /\ result = None /\ invocations = 4
  /\ run = 2 /\ choice = "1"

(* ------------------------------- C2 ------------------------------------ *)
\* C2: letter stage: the step in which a write of the checkpoint fails
\* takes the loop to Aborted, and from then on the run makes no external
\* call, no merge and no write.
C2_AbortOnSaveFailure ==
  [][ (stage = "letter" /\ run' = run /\ saveFailed') =>
        /\ pc' = "aborted"
        /\ saveFailed =>
             /\ called' = called
             /\ invocations' = invocations
             /\ all_words' = all_words
             /\ file01' = file01 ]_vars

C2_Witness ==
  /\ stage = "letter" /\ pc = "aborted" /\ saveFailed
  /\ i + 1 < NumLetters
  /\ Pending(Letter(i + 2))

(* ------------------------------- C3 ------------------------------------ *)
\* C3 (as claimed): word stage: once a write of the checkpoint has failed,
\* the run makes no further external call.
C3_StopOnSaveFailure ==
  [][ (stage = "word" /\ run' = run /\ saveFailed) =>
        (called' = called /\ invocations' = invocations) ]_vars

(* ------------------------------- C4 ------------------------------------ *)
\* C4: word stage, resume run: no word that has a Record in the loaded
\* checkpoint is among the words the external call was invoked for.
C4_NoDuplicateCostWord ==
  (stage = "word" /\ choice = "1") =>
    Range(called) \cap RecordsOf(LoadedDoc) = {}

C4_Witness ==
  /\ stage = "word" /\ choice = "1" /\ pc = "done"
  /\ RecordsOf(LoadedDoc) \cap Range(Catalog) # {}
  /\ called # << >>

(* ------------------------------- C5 ------------------------------------ *)
\* C5: letter stage: a letter whose bucket in the loaded checkpoint holds
\* at least one word is not passed to the controller in that run, and the
\* document keeps the words the checkpoint had for it.
C5_NoDuplicateCostLetter ==
  stage = "letter" =>
    \A l \in DOMAIN LoadedDoc :
      DOMAIN BucketWords(LoadedDoc[l]) # {} =>
        /\ l \notin Range(called)
        /\ (l \in DOMAIN all_words =>
              BucketWords(all_words[l]) = BucketWords(LoadedDoc[l]))

\* a run that loaded a checkpoint with words for one letter, old format
\* included, has called the controller for another letter and is done
C5_Witness ==
  /\ stage = "letter" /\ pc = "done" /\ called # << >>
  /\ \E l \in DOMAIN LoadedDoc :
       /\ DOMAIN BucketWords(LoadedDoc[l]) # {}
       /\ "statistics" \notin DOMAIN LoadedDoc[l]
       /\ BucketWords(all_words[l]) = BucketWords(LoadedDoc[l])

(* ------------------------------- C6 ------------------------------------ *)
ControllerEntry == pc \in {"loop", "word"} /\ pc' = "call"
LoopExit == pc \in {"loop", "letter"} /\ pc' \in {"done", "final_open"}

\* C6: the step in which the controller returns failure leaves the
\* document and the checkpoint file as they are and the key pending; the
\* driver then goes on (it neither stops nor writes); the next key the
\* controller is entered for is the first pending key after the failed one
\* in catalog order, and the loop ends only when there is none.
C6_TerminalFailureRecoverable ==
  [][ /\ (pc \in {"call", "backoff"} /\ pc' = "returned" /\ result' = None) =>
           /\ Document' = Document
           /\ CheckpointFile' = CheckpointFile
           /\ Pending(CurrentKey)'
      /\ (pc = "returned" /\ result = None /\ pc' # "killed") =>
           /\ pc' \in {"delay", "sleep"}
           /\ Document' = Document
           /\ CheckpointFile' = CheckpointFile
      /\ (ControllerEntry /\ prevFailed # NoKey) =>
           CurrentKey' = FirstPendingAfter(prevFailed)
      /\ (LoopExit /\ prevFailed # NoKey) =>
           FirstPendingAfter(prevFailed) = NoKey ]_vars

C6_Witness ==
  /\ pc = "call" /\ attempt = 0 /\ invocations = 0
  /\ prevFailed # NoKey /\ prevFailed # CurrentKey
  /\ stage = "letter"

(* ------------------------------- C7 ------------------------------------ *)
\* a save of this run has succeeded
SavedInRun == lastSaved.kind = "valid" /\ lastSaved # startFile

\* C7 (as claimed): after a failed write that no successful save has
\* followed, the checkpoint file is the document of the last successful
\* save (stated for runs in which a save has succeeded).
C7_CrashSafety ==
  (unsaved /\ SavedInRun) => CheckpointFile = lastSaved

(* ------------------------------- C8 ------------------------------------ *)
\* C8 (as claimed): whenever the process has been terminated, the
\* checkpoint file is the complete document of the last completed save
\* (stated for runs in which a save has completed).
C8_WholeDocumentAtomicity ==
  (pc = "killed" /\ SavedInRun) => CheckpointFile = lastSaved

(* ------------------------------- C9 ------------------------------------ *)
\* C9: deterministic service, no write failure: in a resume run that
\* follows a completed run every save writes the document the first run
\* left, and the file is that document when the run is done.
C9_IdempotentResume ==
  (run = 2 /\ (stage = "word" => choice = "1")) =>
    /\ lastSaved = startFile
    /\ (pc = "done" => CheckpointFile = startFile)

C9_Witness ==
  /\ run = 2 /\ pc = "done" /\ stage = "letter"
  /\ called # << >>
  /\ startFile.kind = "valid"
  /\ Range(called) # Letters
  /\ \A l \in Letters \ Range(called) : DOMAIN BucketWords(startFile.doc[l]) # {}

(* ------------------------------- C10 ----------------------------------- *)
\* the processed items the checkpoint file does not hold
NotOnDisk ==
  IF stage = "letter"
  THEN {l \in DOMAIN all_words :
          /\ DOMAIN BucketWords(all_words[l]) # {}
          /\ (l \notin DOMAIN CheckpointFile.doc \/
              BucketWords(CheckpointFile.doc[l]) # BucketWords(all_words[l]))}
  ELSE RecordsOf(comprehensive_data) \ RecordsOf(CheckpointFile.doc)

\* C10 (as claimed): at any moment at most one processed item is missing
\* from the checkpoint file; files that a write has truncated are left
\* aside, so that only items a readable or absent file lacks are counted.
C10_SaveBeforeNextItem ==
  CheckpointFile.kind # "corrupt" => Cardinality(NotOnDisk) <= 1

L_Derivable(doc) ==
  \A l \in DOMAIN doc :
    /\ "statistics" \in DOMAIN doc[l]
    /\ doc[l].statistics =
         JsonStatistics(calculate_word_statistics(BucketWords(doc[l])))
    /\ doc[l].statistics.total_words = Cardinality(DOMAIN BucketWords(doc[l]))

\* C12: letter stage: every document a step writes to the checkpoint file
\* has, for every bucket, the statistics calculate_word_statistics gives
\* for the words of that bucket; total_words is the number of words.
C12_StatisticsDerivableLetter ==
  [][ (stage = "letter" /\ file01' # file01 /\ file01'.kind = "valid") =>
        L_Derivable(file01'.doc) ]_vars

\* a document was written that holds a bucket loaded without statistics
\* and a bucket merged in this run
C12_Witness ==
  /\ stage = "letter" /\ pc = "delay" /\ file01.kind = "valid"
  /\ startFile.kind = "valid"
  /\ \E l \in DOMAIN startFile.doc : "statistics" \notin DOMAIN startFile.doc[l]
  /\ \E l \in Range(called) \cap DOMAIN file01.doc :
       DOMAIN BucketWords(file01.doc[l]) # {}

(* ------------------------------- C13 ----------------------------------- *)
\* the statistics of every bucket of a JSON document are what
\* calculate_detailed_statistics gives for the words of the bucket, written
\* as json.dump writes them
W_Derivable(doc) ==
  \A l \in DOMAIN doc :
    /\ "statistics" \in DOMAIN doc[l]
    /\ doc[l].statistics =
         JsonStatistics(calculate_detailed_statistics(BucketWords(doc[l])))

\* C13 (as claimed): word stage: every document a step writes to the
\* checkpoint file, per-word checkpoint or final save, has, for every
\* bucket, the statistics calculate_detailed_statistics gives for the
\* words of that bucket, buckets without words included.
C13_StatisticsDerivableWord ==
  [][ (stage = "word" /\ file02' # file02 /\ file02'.kind = "valid") =>
        W_Derivable(file02'.doc) ]_vars


(* ------------------------------- C14 ----------------------------------- *)
\* the complexity the service returned for a word is usable as it is
RawValid(raw) == "complexity" \in DOMAIN raw /\ raw.complexity \in ValidComplexity
\* a Record agrees with the normalizer rule for the object the service returned
Normalized(raw, rec) ==
  /\ "complexity" \in DOMAIN rec
  /\ rec.complexity \in ValidComplexity
  /\ rec.complexity = IF RawValid(raw) THEN raw.complexity ELSE "Intermediate"
\* the two phonetic keys of a word-stage Record, "" when the service sent none
HasPhonetics(raw, rec) ==
  \A f \in {"phonetic_respelling", "ssml_phoneme"} :
    /\ f \in DOMAIN rec
    /\ (f \notin DOMAIN raw => rec[f] = "")

\* C14: every Record a controller returns, and every Record the run merged
\* into the document, has complexity "Intermediate" or "Advanced": the
\* returned value when that was one of the two, "Intermediate" otherwise; a
\* warning is logged exactly when a returned complexity was missing or
\* invalid; in the word stage the Record also has the keys
\* phonetic_respelling and ssml_phoneme, "" when they were missing.
C14_NormalizerInvariant ==
  /\ (stage = "letter" /\ pc = "returned" /\ Truthy(result)) =>
       /\ \A w \in DOMAIN result.data :
            Normalized(L_Info(L_letter, w), result.data[w])
       /\ warned <=> \E w \in DOMAIN result.data : ~RawValid(L_Info(L_letter, w))
  /\ (stage = "word" /\ pc = "returned" /\ Truthy(result)) =>
       /\ Normalized(W_Content(W_letter, W_word), result.data)
       /\ HasPhonetics(W_Content(W_letter, W_word), result.data)
       /\ warned <=> ~RawValid(W_Content(W_letter, W_word))
  /\ stage = "letter" =>
       \A l \in Range(called) \cap DOMAIN all_words :
         \A w \in DOMAIN BucketWords(all_words[l]) :
           Normalized(L_Info(l, w), BucketWords(all_words[l])[w])
  /\ stage = "word" =>
       \A l \in DOMAIN comprehensive_data :
         \A w \in DOMAIN BucketWords(comprehensive_data[l]) \cap Range(called) :
           /\ Normalized(W_Content(l, w), BucketWords(comprehensive_data[l])[w])
           /\ HasPhonetics(W_Content(l, w), BucketWords(comprehensive_data[l])[w])

\* a word-stage Record was merged whose complexity and ssml_phoneme the
\* service had not supplied in usable form
C14_Witness ==
  /\ stage = "word" /\ pc = "ckpt_open"
  /\ W_word \in DOMAIN BucketWords(comprehensive_data[W_letter])
  /\ ~RawValid(W_Content(W_letter, W_word))
  /\ "ssml_phoneme" \notin DOMAIN W_Content(W_letter, W_word)
  /\ BucketWords(comprehensive_data[W_letter])[W_word].ssml_phoneme = ""
  /\ BucketWords(comprehensive_data[W_letter])[W_word].complexity = "Intermediate"

(* ------------------------------- C15 ----------------------------------- *)
\* the keys of the catalog a resume run starting from this file would attempt
PendingKeys(file) == {key \in Range(Catalog) : PendingOnDisk(file, key)}
\* the keys of a set in catalog order
RECURSIVE InCatalogOrder(_, _)
InCatalogOrder(keys, n) ==
  IF n > Len(Catalog) THEN << >>
  ELSE (IF Catalog[n] \in keys THEN << Catalog[n] >> ELSE << >>)
       \o InCatalogOrder(keys, n + 1)
\* the run went through the whole catalog, and every key that did not end in
\* terminal failure has its Record in the checkpoint file
RunComplete ==
  /\ pc = "done"
  /\ \A key \in Range(Catalog) \ failed : ~PendingOnDisk(CheckpointFile, key)

IsPrefix(s, t) == Len(s) <= Len(t) /\ \A k \in 1..Len(s) : s[k] = t[k]
\* the run reads the checkpoint file it finds (the letter stage always does)
ResumeRun == stage = "letter" \/ choice = "1"
\* a resume run after the first calls the service for the keys its start
\* file shows as pending, in catalog order, and for all of them when it
\* gets through the catalog
CallsThePending ==
  (run = 2 /\ ResumeRun /\ pc \notin {"load", "killed"}) =>
    /\ IsPrefix(called, InCatalogOrder(PendingKeys(startFile), 1))
    /\ pc = "done" => called = InCatalogOrder(PendingKeys(startFile), 1)

\* C15: when a run has ended with the keys of F in terminal
\* failure and every other key processed and saved, the next run starts on
\* a checkpoint file that shows exactly the keys of F as pending; and a
\* resume run calls the service for exactly the keys its start file shows
\* as pending, in catalog order.
C15_PendingSetRederived ==
  [][ /\ (RunComplete /\ pc' = "load") =>
           /\ startFile' = CheckpointFile
           /\ failed = PendingKeys(CheckpointFile)
      /\ CallsThePending ]_vars

(* ------------------------------- C16 ----------------------------------- *)
\* C16: in the controller a failed attempt a < 3 is followed by a sleep of
\* base_delay * 2^a seconds (letter stage 2, 4, 8; word stage 5, 10, 20 plus
\* a jitter below one second) and then by attempt a + 1; the failed attempt
\* a = 3 is followed by no sleep and the controller returns None; a
\* successful attempt is followed by no sleep of the controller.
C16_BackoffSchedule ==
  [][ /\ (pc = "call" /\ pc' # "killed") =>
           /\ slept' = 0
           /\ pc' \in {"backoff", "returned"}
           /\ pc' = "backoff" => attempt < 3
           /\ (pc' = "returned" /\ result' = None) => attempt = 3
      /\ (pc = "backoff" /\ pc' # "killed") =>
           /\ attempt \in {0, 1, 2}
           /\ attempt' = attempt + 1
           /\ pc' = "call"
           /\ stage = "letter" =>
                slept' = CASE attempt = 0 -> 2000
                           [] attempt = 1 -> 4000
                           [] attempt = 2 -> 8000
           /\ stage = "word" =>
                LET base == CASE attempt = 0 -> 5000
                              [] attempt = 1 -> 10000
                              [] attempt = 2 -> 20000
                IN slept' >= base /\ slept' < base + 1000
      /\ (pc = "returned" /\ pc' # "killed") => slept' = 0 ]_vars

\* the word stage is about to make its last attempt after the third backoff
\* sleep, of 20 seconds and a jitter
C16_Witness ==
  /\ stage = "word" /\ pc = "call" /\ attempt = 3
  /\ slept > 20000 /\ slept < 21000

(* ------------------------------- C17 ----------------------------------- *)
\* the Record(s) the document holds for the key the controller is working on
MergedFor(doc) ==
  IF stage = "letter" THEN BucketWords(doc[L_letter])
  ELSE BucketWords(doc[W_letter])[W_word]

\* C17: every attempt of the controller is one invocation and every failed
\* attempt but the last is followed by one backoff sleep, so that a key
\* whose call fails f <= 3 times and then succeeds costs f + 1 invocations
\* and f backoff sleeps; the bucket of the key then receives the returned
\* Record(s); and the next key the service is called for is the next
\* pending key of the catalog.
C17_FailThenSucceed ==
  [][ pc' # "killed" =>
        /\ pc = "call" =>
             /\ invocations = attempt
             /\ invocations' = invocations + 1 /\ attempt' = attempt
        /\ pc = "backoff" =>
             /\ invocations = attempt + 1
             /\ invocations' = invocations /\ attempt' = attempt + 1
             /\ slept' > 0
        /\ (pc \in {"call", "returned"} \/ pc' = "call") =>
             (slept' > 0 <=> pc = "backoff")
        /\ (pc = "returned" /\ Truthy(result)) =>
             /\ attempt <= 3
             /\ invocations = attempt + 1
             /\ MergedFor(IF stage = "letter" THEN all_words'
                          ELSE comprehensive_data') = result.data
        /\ (called # << >> /\ Len(called') = Len(called) + 1) =>
             called'[Len(called')] = FirstPendingAfter(called[Len(called)]) ]_vars

\* the scenario of the claim: the call for A has failed twice and has
\* then returned one word, after three invocations
C17_Witness ==
  /\ stage = "letter" /\ pc = "returned" /\ L_letter = "A"
  /\ attempt = 2 /\ invocations = 3 /\ Truthy(result)
  /\ Cardinality(DOMAIN result.data) = 1

(* ------------------------------- C18 ----------------------------------- *)
\* C18: letter stage: after an attempted letter, saved or failed, the loop
\* sleeps 2 seconds when a letter that is still to be attempted follows in
\* the catalog, and does not sleep when none follows; it does not sleep
\* when it skips a letter.
C18_InterItemDelayLetter ==
  [][ (stage = "letter" /\ pc' # "killed") =>
        /\ pc = "delay" =>
             slept' = IF FirstPendingAfter(L_letter) # NoKey THEN 2000 ELSE 0
        /\ pc = "loop" => slept' = 0 ]_vars

(* ------------------------------- C19 ----------------------------------- *)
\* C19: word stage: after an attempted word, saved or failed, the loop
\* sleeps 1 second when a word that is still to be attempted follows in the
\* catalog, and does not sleep when none follows; it does not sleep when it
\* skips a word.
C19_InterItemDelayWord ==
  [][ (stage = "word" /\ pc' # "killed") =>
        /\ pc = "sleep" =>
             slept' = IF FirstPendingAfter(W_word) # NoKey THEN 1000 ELSE 0
        /\ pc = "word" => slept' = 0 ]_vars

(* ------------------------------- C20 ----------------------------------- *)
\* every Record of one document is in the other, under the same letter and
\* with the same content
Keeps(old, new) ==
  \A l \in DOMAIN old :
    \A w \in DOMAIN BucketWords(old[l]) :
      /\ l \in DOMAIN new
      /\ w \in DOMAIN BucketWords(new[l])
      /\ BucketWords(new[l])[w] = BucketWords(old[l])[w]

\* C20: in a run that resumes from a checkpoint file holding valid JSON,
\* every Record of the file is in the document the loader returns, and in
\* the checkpoint file after every completed save of the run; the loader
\* returns an empty document only when the file is missing or is not JSON.
C20_ValidPriorStateKept ==
  [][ (startFile.kind = "valid" /\ run' = run /\ pc' # "killed"
        /\ (stage = "letter" \/ choice' = "1")) =>
        /\ pc = "load" =>
             /\ Keeps(startFile.doc, IF stage = "letter" THEN all_words'
                                     ELSE comprehensive_data')
             /\ startFile.doc # EmptyDict =>
                  (IF stage = "letter" THEN all_words'
                   ELSE comprehensive_data') # EmptyDict
        /\ (CheckpointFile' # CheckpointFile /\ CheckpointFile'.kind = "valid") =>
             Keeps(startFile.doc, CheckpointFile'.doc) ]_vars

(* ------------------------------- C21 ----------------------------------- *)
\* C21: letter stage: when the controller has returned, either it returned
\* a parsed payload, which the next step merges into the bucket of the
\* letter before it goes on to the save, or it returned failure after 4
\* invocations; the driver reports no letter as failed that had fewer.
C21_OutcomeSurfaced ==
  [][ (stage = "letter" /\ pc = "returned" /\ pc' # "killed") =>
        \/ /\ result # None
           /\ BucketWords(all_words'[L_letter]) = result.data
           /\ pc' = "save_open"
        \/ /\ result = None
           /\ invocations = 4
           /\ all_words' = all_words ]_vars

(* ------------------------------- C22 ----------------------------------- *)
\* C22: a run that is not terminated from outside and has entered its
\* driver loop ends, for every answer of the service and every outcome of
\* the writes, Completed or Aborted; it is Completed only when every key of
\* the catalog was skipped or attempted, and Aborted only after a write of
\* the checkpoint failed, never because a call or an item failed.
C22_Termination ==
  /\ (pc \notin {"load", "killed"}) ~> (pc \in {"done", "aborted"})
  /\ [](pc = "aborted" => (stage = "letter" /\ saveFailed))
  /\ [](pc = "done" =>
          \A key \in Range(Catalog) : key \in Range(called) \/ ~Pending(key))

\* a letter-stage run has ended Aborted after a failed write, and an item
\* that failed terminally before had not stopped it
C22_Witness ==
  /\ stage = "letter" /\ pc = "aborted" /\ saveFailed /\ failed # {}

(* ------------------------------- C23 ----------------------------------- *)
\* the keys that have a Record in a document: letters with words in the
\* letter stage, words in the word stage
KeysWithRecord(doc) ==
  IF stage = "letter"
  THEN {l \in DOMAIN doc : DOMAIN BucketWords(doc[l]) # {}}
  ELSE RecordsOf(doc)

\* C23: every successful save leaves a checkpoint file in which the keys
\* with a Record are keys loaded from the prior checkpoint or keys whose
\* result the run has merged after the controller returned success; and the
\* run merges no key twice.
C23_RecordSetOnDisk ==
  [][ /\ (CheckpointFile' # CheckpointFile /\ CheckpointFile'.kind = "valid") =>
           KeysWithRecord(CheckpointFile'.doc)
             \subseteq KeysWithRecord(LoadedDoc) \cup Range(merged)
      /\ \A m, n \in 1..Len(merged) : m # n => merged[m] # merged[n]
      /\ Range(merged) \cap KeysWithRecord(LoadedDoc) = {} ]_vars

\* a resume run of the word stage has saved a document that holds a Record
\* it loaded and a Record it merged
C23_Witness ==
  /\ stage = "word" /\ choice = "1" /\ pc = "sleep" /\ file02.kind = "valid"
  /\ merged # << >>
  /\ KeysWithRecord(LoadedDoc) # {}
  /\ KeysWithRecord(file02.doc) = KeysWithRecord(LoadedDoc) \cup Range(merged)

(* ------------------------------- C24 ----------------------------------- *)
\* in resume mode the load makes no backup and keeps the loaded Records,
\* and no step after the load touches the backup file
ResumeKeepsAll ==
  /\ (pc = "load" /\ choice' = "1") =>
       /\ backup' = backup
       /\ file02.kind = "valid" => Keeps(file02.doc, comprehensive_data')
  /\ pc # "load" => backup' = backup

\* C24 (as claimed): word stage, fresh start: whenever a step of the run
\* overwrites a checkpoint file that existed at the start, the backup file
\* holds a copy of that file, made before the first write; in resume mode
\* no backup is made and the loaded Records are kept.
C24_FreshStartBackup ==
  [][ (stage = "word" /\ run' = run /\ pc' # "killed") =>
        /\ (choice = "2" /\ file02' # file02 /\ startFile.kind # "missing") =>
             backup = startFile
        /\ ResumeKeepsAll ]_vars

\* C24 (amended): word stage, fresh start: the load tries to copy an
\* existing checkpoint file to the backup file before any write to the
\* checkpoint file; unless that copy raised, the backup file holds the copy
\* whenever a step of the run overwrites the checkpoint file; in resume
\* mode no backup is made and the loaded Records are kept.
C24_FreshStartBackupAmended ==
  [][ (stage = "word" /\ run' = run /\ pc' # "killed") =>
        /\ (pc = "load" /\ choice' = "2" /\ file02.kind # "missing") =>
             /\ file02' = file02
             /\ ~backupFailed' => backup' = file02
        /\ (choice = "2" /\ file02' # file02 /\ startFile.kind # "missing") =>
             (backupFailed \/ backup = startFile)
        /\ ResumeKeepsAll ]_vars

\* a fresh start has overwritten a checkpoint file that held Records, and
\* the backup file holds the copy
C24_Witness ==
  /\ stage = "word" /\ choice = "2" /\ pc = "sleep"
  /\ startFile.kind = "valid" /\ RecordsOf(startFile.doc) # {}
  /\ file02.kind = "valid" /\ file02 # startFile
  /\ backup = startFile

(* ----------------------------- audio stage ------------------------------ *)
\* the words of the dictionary that are neither skipped nor raise
A_Eligible ==
  IF file02.kind # "valid" THEN {}
  ELSE {w \in AllWords :
          \E l \in DOMAIN file02.doc :
            /\ "words" \in DOMAIN file02.doc[l]
            /\ w \in DOMAIN file02.doc[l].words
            /\ ~A_ExtractRaises(file02.doc[l].words[w])
            /\ ~A_Skipped(extract_word_data(w, file02.doc[l].words[w]))}
Voices == {available_voices[n] : n \in 1..NumVoices}
\* the files a complete run leaves in the folder
A_Targets ==
  {A_Filename(w, v, t) : w \in A_Eligible, v \in Voices, t \in AudioTypes}
\* the call of generate_audio_modern_google the script is at
A_AtCall(t) == stage = "audio" /\ pc = t
A_Target(t) == A_Filename(A_word_name, A_voice_name, t)

\* C25: the audio stage can be run again without paying twice: no synthesis
\* request is sent for a (word, voice, audio type) whose target file exists,
\* the call leaves the folder alone and reports success; and while every
\* target file exists no request is sent, so a run that starts after a run
\* that produced all files sends none
C25_NoDuplicateCost ==
  [][ /\ \A t \in AudioTypes :
           (A_AtCall(t) /\ A_Target(t) \in DOMAIN audio_folder) =>
              /\ posted' = posted
              /\ audio_folder' = audio_folder
              /\ results'[A_voice_name][t]
      /\ (stage = "audio" /\ A_Targets \subseteq DOMAIN audio_folder) =>
            (posted' = posted \/ posted' = << >>)
      /\ (stage = "audio" /\ pc' = "load") => posted' = << >> ]_vars

\* a second run has visited every word of a dictionary whose files all
\* exist, and has sent nothing
C25_Witness ==
  /\ stage = "audio" /\ run = 2 /\ pc = "done" /\ modern_google_available
  /\ stats.total_words = Cardinality(AllWords)
  /\ A_Eligible = AllWords
  /\ A_Targets \subseteq DOMAIN audio_folder
  /\ stats.successful_examples = NumVoices * Cardinality(AllWords)
  /\ posted = << >>

(* --------------------------- run determinism ---------------------------- *)
\* what a run does, computed from what it starts with alone: the checkpoint
\* file at the start, the catalog, the answer to the prompt and the outcome
\* the service has for each key
NoRun == [calls |-> << >>, saves |-> << >>]
Then(call, save, rest) ==
  [rest EXCEPT !.calls = call \o @, !.saves = save \o @]

\* (a value that is used more than once is bound as the element of a set of
\* one element, so that it is computed once)
Only(S) == CHOOSE x \in S : TRUE

RECURSIVE L_RunFrom(_, _)
L_RunFrom(doc, n) ==
  IF n > NumLetters THEN NoRun
  ELSE LET letter == Letter(n)
           outcome == L_DetOutcome(letter, adapter.plan[letter])
       IN IF L_AlreadyProcessed(doc, letter) THEN L_RunFrom(doc, n + 1)
          ELSE IF outcome.kind = "payload" /\ DOMAIN outcome.data # {}
          THEN Only({Then(<< letter >>, << Valid(JsonDump(next)) >>,
                          L_RunFrom(next, n + 1)) :
                       next \in {L_Merge(doc, letter, L_Normalize(outcome.data))}})
          ELSE Then(<< letter >>, << >>, L_RunFrom(doc, n + 1))

RECURSIVE W_RunWords(_, _, _)
W_RunWords(doc, letter, m) ==
  LET words == W_WordList(load_json(file01), letter) IN
  IF m > Len(words) THEN [calls |-> << >>, saves |-> << >>, doc |-> doc]
  ELSE LET word == words[m]
           outcome == W_DetOutcome(letter, word, adapter.plan[word])
       IN IF W_AlreadyProcessed(doc, letter, word)
          THEN W_RunWords(doc, letter, m + 1)
          ELSE IF outcome.kind = "payload"
          THEN Only({Then(<< word >>, << Valid(JsonDump(next)) >>,
                          W_RunWords(next, letter, m + 1)) :
                       next \in {W_UpdateStatistics(
                                   W_Merge(doc, letter, word,
                                           W_Normalize(outcome.data)),
                                   letter)}})
          ELSE Then(<< word >>, << >>, W_RunWords(doc, letter, m + 1))

RECURSIVE W_RunFrom(_, _)
W_RunLetter(seeded, n) ==
  IF ~W_HasWords(load_json(file01), Letter(n)) THEN W_RunFrom(seeded, n + 1)
  ELSE Only({Only({Then(inner.calls, inner.saves, W_RunFrom(done, n + 1)) :
                     done \in {W_UpdateStatistics(inner.doc, Letter(n))}}) :
               inner \in {W_RunWords(seeded, Letter(n), 1)}})
W_RunFrom(doc, n) ==
  IF n > NumLetters
  THEN [calls |-> << >>, saves |-> << Valid(JsonDump(doc)) >>]
  ELSE Only({W_RunLetter(seeded, n) :
               seeded \in {IF Letter(n) \notin DOMAIN doc
                           THEN DictSet(doc, Letter(n), W_SeedBucket(Letter(n)))
                           ELSE doc}})

\* the run the inputs of the current run determine
DeterminedRun ==
  IF stage = "letter"
  THEN L_RunFrom(L_InitStructure(L_LoadDoc(startFile)), 1)
  ELSE W_RunFrom(IF choice = "1" THEN load_json(startFile) ELSE EmptyDict, 1)

\* number of completed saves of the run so far
SavesDone == Len(merged) + (IF stage = "word" /\ pc = "done" THEN 1 ELSE 0)
\* invocations the controller makes for a key whose outcome is given
DeterminedInvocations(key) ==
  IF adapter.plan[key] = "api_error" THEN L_max_retries_off ELSE 1

\* C26: a run is determined by what it starts with: with the outcome of the
\* service fixed for every key and a file system that works, the keys the
\* service is invoked for and the number of invocations for each, and the
\* documents saved, one after the other, are those computed from the
\* checkpoint file at the start, the catalog and the answer to the prompt;
\* the jitter of a backoff changes the length of the sleep and nothing else
C26_RunDeterminism ==
  [][ /\ (pc' # "load" /\ (called' # called \/ pc' # pc)) =>
           \A determined \in {DeterminedRun'} :
             /\ IsPrefix(called', determined.calls)
             /\ pc' = "done" => called' = determined.calls
             /\ pc' = "done" => SavesDone' = Len(determined.saves)
             /\ (CheckpointFile' # CheckpointFile /\ CheckpointFile'.kind = "valid") =>
                  CheckpointFile' =
                    determined.saves[Len(merged') + (IF pc = "final_write" THEN 1 ELSE 0)]
      /\ (pc = "returned") =>
           invocations = DeterminedInvocations(IF stage = "letter" THEN L_letter ELSE W_word)
      /\ (stage = "word" /\ pc = "backoff") =>
           /\ pc' = "call" /\ attempt' = attempt + 1
           /\ << stage, adapter, faulty, run, i, j, result, all_words, file01,
                 choice, existing_data, comprehensive_data, file02, backup,
                 invocations, called, startFile, merged, failed >>' =
              << stage, adapter, faulty, run, i, j, result, all_words, file01,
                 choice, existing_data, comprehensive_data, file02, backup,
                 invocations, called, startFile, merged, failed >> ]_vars

\* a word-stage run that resumed, invoked the service for two words, one of
\* which failed after all its attempts, and ended with the determined save
C26_Witness ==
  /\ stage = "word" /\ pc = "done" /\ choice = "1"
  /\ Len(called) = 2 /\ Len(merged) = 1 /\ failed # {}
  /\ called = DeterminedRun.calls
  /\ file02 = DeterminedRun.saves[2]

\* C27: the letter stage writes its checkpoint file only right after a
\* letter was generated and merged: a step that changes the file is the open
\* or the write of the save that follows the merge of the current letter's
\* non-empty payload; and while no letter has been merged in the run (each
\* was skipped or failed) the file, or its absence, is as it was at the
\* start of the run
C27_WritesOnlyOnSuccess ==
  /\ [][ (stage = "letter" /\ file01' # file01) =>
            /\ pc \in {"save_open", "save_write"}
            /\ result.kind = "dict" /\ DOMAIN result.data # {}
            /\ merged # << >> /\ merged[Len(merged)] = L_letter
            /\ BucketWords(all_words[L_letter]) = result.data
            /\ all_words' = all_words ]_vars
  /\ []((stage = "letter" /\ merged = << >>) => file01 = startFile)

\* a run has ended in which one letter was skipped and the other failed
\* after all its attempts, and the file is the valid file of the start
C27_Witness ==
  /\ stage = "letter" /\ pc = "done" /\ merged = << >>
  /\ failed # {} /\ Len(called) < NumLetters
  /\ startFile.kind = "valid" /\ file01 = startFile

\* C28: the word stage always saves at the end and so heals missed saves: a
\* run that has entered the loop over the letters comes to the save after
\* the loop, whether or not it processed a word, and ends only through that
\* save; and every save that succeeds writes the Records of all the words
\* merged in the run so far, those whose own checkpoint write failed included
C28_FinalSaveHeals ==
  /\ (stage = "word" /\ pc = "letter") ~> (pc = "final_open")
  /\ [][ (stage = "word" /\ pc' = "done" /\ pc # "done") =>
            pc \in {"final_open", "final_write"} ]_vars
  /\ [][ (stage = "word" /\ file02' # file02 /\ file02'.kind = "valid") =>
            /\ file02' = Valid(JsonDump(comprehensive_data))
            /\ Range(merged) \subseteq RecordsOf(file02'.doc) ]_vars

\* a run has ended whose checkpoint write after a merged word failed and
\* whose final save succeeded: the file holds the word's Record
C28_Witness ==
  /\ stage = "word" /\ pc = "done" /\ saveFailed /\ ~unsaved
  /\ merged # << >> /\ file02.kind = "valid"
  /\ Range(merged) \subseteq RecordsOf(file02.doc)
  /\ lastSaved = file02

\* the document has a bucket with the keys letter, words and statistics for
\* every letter of the alphabet
AllBucketsSeeded(doc) ==
  \A l \in Letters :
    /\ l \in DOMAIN doc
    /\ {"letter", "words", "statistics"} \subseteq DOMAIN doc[l]
    /\ doc[l].letter = l

\* C29: the letter stage seeds all buckets: once the initialisation is done
\* the in-memory document has, for every letter of the alphabet, a bucket
\* with the keys letter, words and statistics, and so has every document the
\* stage saves, whichever letters the loaded checkpoint had buckets for
C29_AllBucketsSeeded ==
  /\ []((stage = "letter" /\ pc \notin {"load", "init", "killed"}) =>
          AllBucketsSeeded(all_words))
  /\ [][ (stage = "letter" /\ file01' # file01 /\ file01'.kind = "valid") =>
            AllBucketsSeeded(file01'.doc) ]_vars

\* a document was saved in a run that loaded a checkpoint with the bucket of
\* one letter only, in the older format without statistics
C29_Witness ==
  /\ stage = "letter" /\ pc = "delay" /\ ~readFailed
  /\ startFile.kind = "valid" /\ DOMAIN startFile.doc # Letters
  /\ \E l \in DOMAIN startFile.doc : "statistics" \notin DOMAIN startFile.doc[l]
  /\ file01.kind = "valid" /\ file01 # startFile
  /\ AllBucketsSeeded(file01.doc)

\* the words of the dictionary the loops have passed
RECURSIVE A_WordsBefore(_)
A_WordsBefore(n) ==
  IF n = 0 THEN 0
  ELSE A_WordsBefore(n - 1)
       + (IF Letter(n) \in DOMAIN file02.doc /\ "words" \in DOMAIN file02.doc[Letter(n)]
          THEN Len(W_WordList(file02.doc, Letter(n))) ELSE 0)
A_InWord == pc \in {"voice", "example", "pronunciation", "next_voice", "count"}
A_Visited ==
  IF pc = "done" THEN A_WordsBefore(NumLetters)
  ELSE A_WordsBefore(i) + (IF pc = "letter" THEN 0 ELSE j) + (IF A_InWord THEN 1 ELSE 0)

\* C30: the audio stage does not retry and keeps failures apart: the words
\* are visited one after the other, each once (the count of visited words
\* is the number of words the loops have reached, and all the words of the
\* dictionary at the end); no synthesis request is sent twice in a run; and
\* once the dictionary is loaded nothing ends the run before the last word,
\* neither a failed call nor the exception of a word
C30_NoRetryIsolation ==
  /\ []((stage = "audio" /\ pc \notin {"load", "killed"}) =>
          /\ stats.total_words = A_Visited
          /\ \A m, n \in 1..Len(posted) : m # n => posted[m] # posted[n])
  /\ [][ (stage = "audio" /\ pc' \in Terminal /\ pc \notin Terminal) =>
            \/ pc = "load" /\ pc' = "killed" /\ readFailed'
            \/ pc' = "done" /\ stats.total_words = A_WordsBefore(NumLetters) ]_vars

\* a run has ended in which a call for the first word failed, so that one
\* of its files is missing, and all the files of the last word were made
C30_Witness ==
  /\ stage = "audio" /\ pc = "done" /\ run = 1 /\ faults = 1
  /\ stats.total_words = Cardinality(AllWords)
  /\ stats.failed_generations = 1
  /\ \E v \in Voices, t \in AudioTypes :
       A_Filename(Word(Letter(1), 1), v, t) \notin DOMAIN audio_folder
  /\ \A v \in Voices, t \in AudioTypes :
       A_Filename(Word(Letter(NumLetters), 1), v, t) \in DOMAIN audio_folder
  /\ Len(posted) >= NumVoices * 2

\* C31: the audio stage leaves failed items pending: a call of
\* generate_audio_modern_google whose target file does not exist creates
\* the file only in a step that sent the request, and the whole file only
\* when it reports success; a call that reports failure leaves no file, or,
\* when the write itself raised, what open and a partial write left; and a
\* target file that does not exist is never passed over: the call for it
\* sends the request, unless the project lookup before it fails
C31_FailedStayPending ==
  [][ \A t \in AudioTypes :
        (A_AtCall(t) /\ A_Target(t) \notin DOMAIN audio_folder) =>
           LET request == A_Request(A_extracted_data, A_voice_name, t)
               created == A_Target(t) \in DOMAIN audio_folder'
           IN /\ created => posted' = Append(posted, request)
              /\ results'[A_voice_name][t] <=>
                   (created /\ audio_folder'[A_Target(t)] = "mp3")
              /\ (created /\ ~results'[A_voice_name][t]) =>
                   audio_folder'[A_Target(t)] = "truncated"
              /\ \/ posted' = Append(posted, request)
                 \/ /\ posted' = posted /\ faults' = faults + 1
                    /\ ~created /\ ~results'[A_voice_name][t]
              /\ \A f \in DOMAIN audio_folder :
                   f \in DOMAIN audio_folder' /\ audio_folder'[f] = audio_folder[f]
              /\ DOMAIN audio_folder' \subseteq DOMAIN audio_folder \cup {A_Target(t)} ]_vars

\* a second run has ended that sent exactly one request, for the one file
\* the first run left missing after a call that failed, and made it
C31_Witness ==
  /\ stage = "audio" /\ run = 2 /\ pc = "done" /\ modern_google_available
  /\ A_Eligible = AllWords
  /\ Len(posted) = 1 /\ faults = 0
  /\ A_Targets \subseteq DOMAIN audio_folder
  /\ \A f \in A_Targets : audio_folder[f] = "mp3"

\* the calls for the current word that reported success
A_Successes == {<< v, t >> \in (DOMAIN results) \X AudioTypes : results[v][t]}

\* C32: the counters of the audio stage: at every point of a run, and so at
\* its end, skipped_words + failed_generations <= total_words and each of
\* successful_examples and successful_pronunciations is at most the number
\* of voices times the words that were not skipped; a word that is visited
\* adds one to total_words, a skipped word one to skipped_words, and
\* failed_generations grows by exactly one for a word that is not skipped
\* and for which fewer than two files per voice were produced or found
\* (none, when reading its entry raised), and by nothing otherwise
C32_Counters ==
  /\ []((stage = "audio" /\ pc \notin {"load", "killed"}) =>
          /\ stats.skipped_words + stats.failed_generations <= stats.total_words
          /\ stats.successful_examples
               <= NumVoices * (stats.total_words - stats.skipped_words)
          /\ stats.successful_pronunciations
               <= NumVoices * (stats.total_words - stats.skipped_words)
          /\ A_InWord =>
               \A s \in A_Successes :
                 A_Filename(A_word_name, s[1], s[2]) \in DOMAIN audio_folder)
  /\ [][ (stage = "audio" /\ pc' # "load" /\ pc \notin Terminal) =>
           LET visits == pc = "word" /\ j < Len(A_Words)
               raises == visits /\ A_ExtractRaises(A_word_data)
               skips == visits /\ ~raises /\ A_Skipped(A_extracted_data)
               short == pc = "count" /\ Cardinality(A_Successes) < NumVoices * 2
           IN /\ stats'.total_words =
                   stats.total_words + (IF visits THEN 1 ELSE 0)
              /\ stats'.skipped_words =
                   stats.skipped_words + (IF skips THEN 1 ELSE 0)
              /\ stats'.failed_generations =
                   stats.failed_generations + (IF raises \/ short THEN 1 ELSE 0)
              /\ pc = "count" =>
                   /\ stats'.successful_examples = stats.successful_examples
                        + Cardinality({s \in A_Successes : s[2] = "example"})
                   /\ stats'.successful_pronunciations = stats.successful_pronunciations
                        + Cardinality({s \in A_Successes : s[2] = "pronunciation"}) ]_vars

\* a run has ended that skipped one word and failed to make one file of
\* the other
C32_Witness ==
  /\ stage = "audio" /\ pc = "done" /\ modern_google_available
  /\ stats.total_words = 2 /\ stats.skipped_words = 1
  /\ stats.failed_generations = 1
  /\ stats.successful_examples + stats.successful_pronunciations
       = NumVoices * 2 - 1

====
